---------------------------- MODULE Spec2Model ----------------------------
(***************************************************************************)
(* StudentTrackManager: the storage layer (MemStorage, MongoStorage with   *)
(* its TTL cache), the passport-local authentication and the REST routes,  *)
(* as state machines.                                                      *)
(*                                                                         *)
(* Encoding of JavaScript values                                           *)
(*   - a string that the code inspects character by character (names,     *)
(*     e-mail, student code, search text, sort key, ObjectId hex) is a     *)
(*     sequence of one-character strings;                                  *)
(*   - a string that is only compared as a whole (status, role, username, *)
(*     password, cache-key tag) is a TLA+ string;                          *)
(*   - an object is a record whose DOMAIN is the set of keys it has, so an *)
(*     absent key (undefined) is a key outside the DOMAIN;                 *)
(*   - null is the value Null.                                             *)
(***************************************************************************)
EXTENDS Integers, Sequences, FiniteSets, TLC

VARIABLES
    students,             \* MemStorage.students: Map<number, Student>, as the
                          \* sequence of its values in insertion order
    currentId,            \* MemStorage.currentId
    currentStudentIdNum,  \* MemStorage.currentStudentIdNum
    users,                \* MemStorage.users, in insertion order
    currentUserId,        \* MemStorage.currentUserId
    studentDocs,          \* the documents of MongoStorage.StudentModel's
                          \* collection, in natural order
    userDocs,             \* the documents of MongoStorage.UserModel's collection
    cache,                \* MongoStorage.cache: key -> {data, timestamp}
    oidCounter,           \* the counter of the ObjectIds this process generates
    now,                  \* Date.now(), in milliseconds
    procs,                \* the calls in flight: each one's position and locals
    calls,                \* the number of calls started so far
    backend,              \* the exported storage: "mem" or "mongo"
    sessions,             \* the session store: session id -> session
    reply                 \* the operation that completed last and its result

memVars == <<students, currentId, currentStudentIdNum, users, currentUserId>>

mongoVars == <<studentDocs, userDocs, cache, oidCounter>>

runVars == <<now, procs, calls>>

webVars == <<backend, sessions>>

vars == <<memVars, mongoVars, runVars, webVars, reply>>

-----------------------------------------------------------------------------
(* Bounds of the model *)

\* createStudent calls per behaviour of the MemStorage specification
MaxCreates == 2

\* createStudent calls per behaviour of the query specification
MaxStudents == 3

\* calls of MongoStorage operations per behaviour, one after another
MaxCalls == 3

\* calls of MongoStorage operations per behaviour, interleaved
MaxAsyncCalls == 2

\* register and login requests per behaviour
MaxAuthCalls == 3

\* requests to the authenticated routes per behaviour
MaxRequests == 3

\* steps of the clock per behaviour
MaxTicks == 2

\* the time a cache entry lives, in milliseconds
cacheTTL == 60000

\* a step of the clock: half the time a cache entry lives
TickMs == cacheTTL \div 2

-----------------------------------------------------------------------------
(* JavaScript values *)

\* null in a text field
Null == <<"null">>

\* undefined where an object is expected (Map.get, Array.prototype.find)
Undefined == [undefined |-> TRUE]

Has(obj, key) == key \in DOMAIN obj

\* obj.key || dflt, for a text value: undefined, null and "" are falsy
OrElse(obj, key, dflt) ==
    IF Has(obj, key) /\ obj[key] # Null /\ obj[key] # <<>> THEN obj[key] ELSE dflt

\* { ...a, ...b }
Spread(a, b) ==
    [k \in DOMAIN a \cup DOMAIN b |-> IF k \in DOMAIN b THEN b[k] ELSE a[k]]

\* const { key: _, ...rest } = obj
Without(obj, key) == [k \in DOMAIN obj \ {key} |-> obj[k]]

-----------------------------------------------------------------------------
(* Text *)

\* String.prototype.toLowerCase on one character
ToLowerChar(c) ==
    CASE c = "A" -> "a"
      [] c = "B" -> "b"
      [] c = "L" -> "l"
      [] c = "O" -> "o"
      [] c = "S" -> "s"
      [] c = "T" -> "t"
      [] OTHER   -> c

ToLowerCase(s) == [i \in 1..Len(s) |-> ToLowerChar(s[i])]

\* String.prototype.includes
Includes(hay, needle) ==
    \E i \in 0..(Len(hay) - Len(needle)) :
        SubSeq(hay, i + 1, i + Len(needle)) = needle

\* Number.prototype.toString for a non-negative integer
RECURSIVE ToDigits(_)
ToDigits(n) ==
    LET d == <<"0", "1", "2", "3", "4", "5", "6", "7", "8", "9">>[(n % 10) + 1]
    IN  IF n < 10 THEN <<d>> ELSE Append(ToDigits(n \div 10), d)

\* String.prototype.split on one separator character
RECURSIVE Split(_, _)
Split(s, sep) ==
    IF \A i \in 1..Len(s) : s[i] # sep
    THEN <<s>>
    ELSE LET i == CHOOSE j \in 1..Len(s) :
                      s[j] = sep /\ \A k \in 1..(j - 1) : s[k] # sep
         IN  <<SubSeq(s, 1, i - 1)>> \o Split(SubSeq(s, i + 1, Len(s)), sep)

\* The collation order of the characters used (whitespace, symbols, digits,
\* letters), as String.prototype.localeCompare orders their lower-case forms
CollationOrder ==
    <<" ", "_", ".", "@", "0", "1", "2", "3", "4", "5", "6", "7", "8", "9",
      "a", "b", "l", "o", "s", "t">>

Rank(c) == CHOOSE i \in 1..Len(CollationOrder) : CollationOrder[i] = ToLowerChar(c)

IsUpper(c) == ToLowerChar(c) # c

\* lexicographic comparison of two sequences of integers: -1, 0 or 1
RECURSIVE LexCompare(_, _)
LexCompare(a, b) ==
    IF a = <<>> /\ b = <<>> THEN 0
    ELSE IF a = <<>> THEN -1
    ELSE IF b = <<>> THEN 1
    ELSE IF Head(a) < Head(b) THEN -1
    ELSE IF Head(a) > Head(b) THEN 1
    ELSE LexCompare(Tail(a), Tail(b))

\* String.prototype.localeCompare: the letters decide first, and between two
\* strings with the same letters the first difference of case (lower first)
LocaleCompare(a, b) ==
    LET primary == LexCompare([i \in 1..Len(a) |-> Rank(a[i])],
                              [i \in 1..Len(b) |-> Rank(b[i])])
    IN  IF primary # 0 THEN primary
        ELSE LexCompare([i \in 1..Len(a) |-> IF IsUpper(a[i]) THEN 1 ELSE 0],
                        [i \in 1..Len(b) |-> IF IsUpper(b[i]) THEN 1 ELSE 0])

-----------------------------------------------------------------------------
(* MemStorage: the student collection *)

StatusEnum == {"active", "inactive", "pending"}

\* `${s.firstName} ${s.lastName}`.toLowerCase()
FullNameLower(s) == ToLowerCase(s.firstName \o <<" ">> \o s.lastName)

CompareByName(a, b) == LocaleCompare(FullNameLower(a), FullNameLower(b))

CompareByCode(a, b) == LocaleCompare(a.studentId, b.studentId)

\* the comparator getStudents hands to Array.prototype.sort, for a sort
\* field ("name" or "id") and a sort multiplier
Comparator(order, a, b) ==
    order.multiplier * (IF order.field = "name" THEN CompareByName(a, b)
                        ELSE CompareByCode(a, b))

\* Array.prototype.sort with a comparator: a stable sort.  x goes after
\* every element that does not compare greater than it.
RECURSIVE InsertSorted(_, _, _)
InsertSorted(sorted, x, order) ==
    IF sorted = <<>> THEN <<x>>
    ELSE IF Comparator(order, Head(sorted), x) > 0 THEN <<x>> \o sorted
    ELSE <<Head(sorted)>> \o InsertSorted(Tail(sorted), x, order)

RECURSIVE SortBy(_, _)
SortBy(seq, order) ==
    IF seq = <<>> THEN <<>>
    ELSE InsertSorted(SortBy(SubSeq(seq, 1, Len(seq) - 1), order),
                      seq[Len(seq)], order)

\* Array.prototype.slice(start, end)
Slice(seq, start, end) ==
    LET n    == Len(seq)
        from == IF start < 0 THEN (IF n + start < 0 THEN 0 ELSE n + start)
                ELSE (IF start > n THEN n ELSE start)
        to   == IF end < 0 THEN (IF n + end < 0 THEN 0 ELSE n + end)
                ELSE (IF end > n THEN n ELSE end)
    IN  SubSeq(seq, from + 1, to)

\* a status filter that is skipped when another filter is given too
StatusFilterAloneOnly(studs, filters) ==
    IF DOMAIN filters = {"status"} /\ filters.status # "" /\ filters.status # "all"
    THEN LET keep(s) == s.status = filters.status IN SelectSeq(studs, keep)
    ELSE studs

\* the status filter of getStudents
StatusFilter(studs, filters) ==
    IF Has(filters, "status") /\ filters.status # "" /\ filters.status # "all"
    THEN LET keep(s) == s.status = filters.status IN SelectSeq(studs, keep)
    ELSE studs

\* the grade filter of getStudents
GradeFilter(studs, filters) ==
    IF Has(filters, "grade") /\ filters.grade # 0
    THEN LET keep(s) == s.grade = filters.grade IN SelectSeq(studs, keep)
    ELSE studs

\* a search predicate that lower-cases the search text only
SearchMatchesCaseSensitive(s, searchLower) ==
    \/ Includes(s.firstName, searchLower)
    \/ Includes(s.lastName, searchLower)
    \/ Includes(s.email, searchLower)
    \/ Includes(s.studentId, searchLower)

\* the predicate of the search filter of getStudents
SearchMatches(s, searchLower) ==
    \/ Includes(ToLowerCase(s.firstName), searchLower)
    \/ Includes(ToLowerCase(s.lastName), searchLower)
    \/ Includes(ToLowerCase(s.email), searchLower)
    \/ Includes(ToLowerCase(s.studentId), searchLower)

\* the search filter of getStudents
SearchFilter(studs, filters) ==
    IF Has(filters, "search") /\ filters.search # <<>>
    THEN LET searchLower == ToLowerCase(filters.search)
             keep(s)     == SearchMatches(s, searchLower)
         IN  SelectSeq(studs, keep)
    ELSE studs

\* the sorting step of getStudents
SortStep(studs, filters) ==
    IF Has(filters, "sort") /\ filters.sort # <<>>
    THEN LET parts          == Split(filters.sort, "_")
             field          == parts[1]
             sortMultiplier == IF Len(parts) >= 2 /\ parts[2] = <<"a", "s", "c">>
                               THEN 1 ELSE -1
         IN  IF field = <<"n", "a", "m", "e">>
             THEN SortBy(studs, [field |-> "name", multiplier |-> sortMultiplier])
             ELSE IF field = <<"i", "d">>
             THEN SortBy(studs, [field |-> "id", multiplier |-> sortMultiplier])
             ELSE studs
    ELSE SortBy(studs, [field |-> "name", multiplier |-> 1])

\* a pagination step that counts pages from 0
PageStepFromZero(studs, filters) ==
    IF Has(filters, "page") /\ filters.page # 0
       /\ Has(filters, "limit") /\ filters.limit # 0
    THEN LET start == filters.page * filters.limit
         IN  Slice(studs, start, start + filters.limit)
    ELSE studs

\* the pagination step of getStudents
PageStep(studs, filters) ==
    IF Has(filters, "page") /\ filters.page # 0
       /\ Has(filters, "limit") /\ filters.limit # 0
    THEN LET start == (filters.page - 1) * filters.limit
         IN  Slice(studs, start, start + filters.limit)
    ELSE studs

\* MemStorage.getStudents
MemGetStudents(studs, filters) ==
    PageStep(SortStep(SearchFilter(GradeFilter(StatusFilter(studs, filters),
                                               filters), filters), filters),
             filters)

\* MemStorage.getStudent: Map.get
MemGetStudent(studs, id) ==
    IF \E i \in 1..Len(studs) : studs[i].id = id
    THEN studs[CHOOSE i \in 1..Len(studs) : studs[i].id = id]
    ELSE Undefined

\* MemStorage.getStudentById: Array.prototype.find, the first match
MemGetStudentById(studs, code) ==
    IF \E i \in 1..Len(studs) : studs[i].studentId = code
    THEN studs[CHOOSE i \in 1..Len(studs) :
                   /\ studs[i].studentId = code
                   /\ \A j \in 1..(i - 1) : studs[j].studentId # code]
    ELSE Undefined

\* statistics that report the pending students as issues
MemGetStudentStatsPendingIssues(studs) ==
    LET filter(status) == {i \in 1..Len(studs) : studs[i].status = status}
    IN  [totalStudents    |-> Len(studs),
         activeStudents   |-> Cardinality(filter("active")),
         pendingApprovals |-> Cardinality(filter("pending")),
         issuesReported   |-> Cardinality(filter("pending"))]

\* MemStorage.getStudentStats
MemGetStudentStats(studs) ==
    LET filter(status) == {i \in 1..Len(studs) : studs[i].status = status}
    IN  [totalStudents    |-> Len(studs),
         activeStudents   |-> Cardinality(filter("active")),
         pendingApprovals |-> Cardinality(filter("pending")),
         issuesReported   |-> Cardinality(filter("inactive"))]

\* Map.set: a new key is appended, an existing key keeps its place
MapSet(map, id, value) ==
    IF \E i \in 1..Len(map) : map[i].id = id
    THEN [i \in 1..Len(map) |-> IF map[i].id = id THEN value ELSE map[i]]
    ELSE Append(map, value)

\* Map.delete
MapDelete(map, id) ==
    LET keep(v) == v.id # id IN SelectSeq(map, keep)

\* a student built with the status of the input as it is given
NewStudentUnvalidated(id, student, idNum) ==
    [id           |-> id,
     studentId    |-> OrElse(student, "studentId", <<"S", "T">> \o ToDigits(idNum)),
     firstName    |-> student.firstName,
     lastName     |-> student.lastName,
     email        |-> student.email,
     grade        |-> student.grade,
     phone        |-> OrElse(student, "phone", Null),
     classSection |-> OrElse(student, "classSection", Null),
     address      |-> OrElse(student, "address", Null),
     notes        |-> OrElse(student, "notes", Null),
     status       |-> IF Has(student, "status") THEN student.status ELSE "active",
     userId       |-> Null]

\* the student that createStudent builds
NewStudent(id, student, idNum) ==
    [id           |-> id,
     studentId    |-> OrElse(student, "studentId", <<"S", "T">> \o ToDigits(idNum)),
     firstName    |-> student.firstName,
     lastName     |-> student.lastName,
     email        |-> student.email,
     grade        |-> student.grade,
     phone        |-> OrElse(student, "phone", Null),
     classSection |-> OrElse(student, "classSection", Null),
     address      |-> OrElse(student, "address", Null),
     notes        |-> OrElse(student, "notes", Null),
     status       |-> IF Has(student, "status") /\ student.status \in StatusEnum
                      THEN student.status ELSE "active",
     userId       |-> Null]

\* an update that sets the status as createStudent does: "active" unless a
\* status of the enumeration is supplied
UpdatedStudentDefaulting(student, studentData) ==
    LET status == IF Has(studentData, "status") /\ studentData.status \in StatusEnum
                  THEN studentData.status ELSE "active"
    IN  Spread(Spread(student, Without(studentData, "status")),
               [status |-> status])

\* the student that updateStudent builds
UpdatedStudent(student, studentData) ==
    LET status == IF Has(studentData, "status") /\ studentData.status \in StatusEnum
                  THEN studentData.status ELSE student.status
    IN  Spread(Spread(student, Without(studentData, "status")),
               [status |-> status])

-----------------------------------------------------------------------------
(* MemStorage: the user collection *)

RoleEnum == {"admin", "student"}

\* MemStorage.getUser: Map.get
MemGetUser(us, id) ==
    IF \E i \in 1..Len(us) : us[i].id = id
    THEN us[CHOOSE i \in 1..Len(us) : us[i].id = id]
    ELSE Undefined

\* MemStorage.getUserByUsername: Array.prototype.find, the first match
MemGetUserByUsername(us, username) ==
    IF \E i \in 1..Len(us) : us[i].username = username
    THEN us[CHOOSE i \in 1..Len(us) :
                /\ us[i].username = username
                /\ \A j \in 1..(i - 1) : us[j].username # username]
    ELSE Undefined

\* the user that MemStorage.createUser builds
NewUser(id, userData, ms) ==
    [id        |-> id,
     username  |-> userData.username,
     password  |-> userData.password,
     role      |-> IF Has(userData, "role") /\ userData.role \in RoleEnum
                   THEN userData.role ELSE "student",
     createdAt |-> ms,
     lastLogin |-> Null]

-----------------------------------------------------------------------------
(* Inputs of the MemStorage specification *)

\* InsertStudent values handed to createStudent: a supplied code that looks
\* like a generated one, an empty code (generated), a second record with the
\* name of the first in another case and a status outside the enumeration,
\* and a record without code and status
StudentInputs ==
    { [studentId |-> <<"S", "T", "1", "0", "0", "0", "1">>,
       firstName |-> <<"A", "l">>, lastName |-> <<"B", "o">>,
       email |-> <<"a", "@", "b">>, grade |-> 1, status |-> "pending",
       phone |-> <<"1">>],
      [studentId |-> <<>>,
       firstName |-> <<"B", "o">>, lastName |-> <<"A", "l">>,
       email |-> <<"b", "@", "a">>, grade |-> 2, status |-> "pending"],
      [studentId |-> <<"a", "1">>,
       firstName |-> <<"a", "l">>, lastName |-> <<"B", "O">>,
       email |-> <<"a", "@", "b">>, grade |-> 1, status |-> "bogus",
       notes |-> <<"o">>],
      [firstName |-> <<"A", "l", " ", "B">>, lastName |-> <<"S", "o">>,
       email |-> <<"s", "@", "b">>, grade |-> 2] }

\* Partial<InsertStudent> values handed to updateStudent
StudentUpdates ==
    { [grade |-> 3],
      [status |-> "inactive"],
      [status |-> "bogus"] }

\* StudentFilters values handed to getStudents
FilterInputs ==
    { <<>>,
      [status |-> "all"], [status |-> ""], [status |-> "active"],
      [status |-> "pending"], [status |-> "inactive"], [status |-> "bogus"],
      [status |-> "active", grade |-> 1],
      [status |-> "active", grade |-> 0, search |-> <<"B", "O">>],
      [status |-> "pending", page |-> 1, limit |-> 1],
      [grade |-> 2],
      [search |-> <<"A", "L">>], [search |-> <<"o">>], [search |-> <<"@", "B">>],
      [search |-> <<"s", "t", "1">>], [search |-> <<"l", "b">>],
      [search |-> <<"1">>],
      [sort |-> <<"n", "a", "m", "e", "_", "a", "s", "c">>],
      [sort |-> <<"n", "a", "m", "e", "_", "d", "e", "s", "c">>],
      [sort |-> <<"i", "d", "_", "a", "s", "c">>],
      [sort |-> <<"i", "d", "_", "d", "e", "s", "c">>],
      [sort |-> <<"n", "a", "m", "e">>],
      [sort |-> <<"b", "o", "_", "a", "s", "c">>],
      [page |-> 1, limit |-> 2], [page |-> 2, limit |-> 1],
      [page |-> 3, limit |-> 2], [page |-> 0, limit |-> 1],
      [page |-> -1, limit |-> 1], [page |-> 1, limit |-> -1] }

\* the identifiers a request may name: the assigned ones and one more
StudentIds == 1..(MaxCreates + 1)

\* the student codes getStudentById is asked for: two supplied ones, the
\* first generated one and one that no student has
MemStudentCodes ==
    { <<"S", "T", "1", "0", "0", "0", "1">>, <<"a", "1">>, <<"b", "1">> }

\* the InsertStudent values of the MemStorage specification: a student with
\* a code and a status, one with a code and an invalid status, one with
\* neither (whose generated code is the code of the first)
MemStudentInputs == {student \in StudentInputs : student.grade = 1 \/ ~Has(student, "status")}


-----------------------------------------------------------------------------
(* MemStorage: operations on the student collection *)

MemInit ==
    /\ students = <<>>
    /\ users = <<>>
    /\ currentId = 1
    /\ currentStudentIdNum = 10001
    /\ currentUserId = 1

\* an identifier taken from the size of the collection
AssignedIdBySize(counter, studs) == Len(studs) + 1

\* const id = this.currentId++: the identifier createStudent assigns
AssignedId(counter, studs) == counter

\* MemStorage.createStudent
CreateStudent(student) ==
    LET id         == AssignedId(currentId, students)
        generated  == OrElse(student, "studentId", <<>>) = <<>>
        newStudent == NewStudent(id, student, currentStudentIdNum)
    IN  /\ currentId' = currentId + 1
        /\ currentStudentIdNum' =
               IF generated THEN currentStudentIdNum + 1 ELSE currentStudentIdNum
        /\ students' = MapSet(students, id, newStudent)
        /\ reply' = [op |-> "createStudent", student |-> student,
                     result |-> newStudent]
        /\ UNCHANGED <<users, currentUserId, mongoVars, runVars, webVars>>

\* MemStorage.updateStudent
UpdateStudent(id, studentData) ==
    LET student == MemGetStudent(students, id)
    IN  /\ IF student = Undefined
           THEN /\ reply' = [op |-> "updateStudent", id |-> id,
                             studentData |-> studentData, result |-> Undefined]
                /\ UNCHANGED students
           ELSE /\ students' = MapSet(students, id,
                                      UpdatedStudent(student, studentData))
                /\ reply' = [op |-> "updateStudent", id |-> id,
                             studentData |-> studentData,
                             result |-> UpdatedStudent(student, studentData)]
        /\ UNCHANGED <<currentId, currentStudentIdNum, users, currentUserId>>
        /\ UNCHANGED <<mongoVars, runVars, webVars>>

\* MemStorage.deleteStudent
DeleteStudent(id) ==
    /\ students' = MapDelete(students, id)
    /\ reply' = [op |-> "deleteStudent", id |-> id,
                 result |-> (MemGetStudent(students, id) # Undefined)]
    /\ UNCHANGED <<currentId, currentStudentIdNum, users, currentUserId>>
    /\ UNCHANGED <<mongoVars, runVars, webVars>>

\* MemStorage.getStudents
GetStudents(filters) ==
    /\ reply' = [op |-> "getStudents", filters |-> filters,
                 result |-> MemGetStudents(students, filters)]
    /\ UNCHANGED <<memVars, mongoVars, runVars, webVars>>

\* MemStorage.getStudentById
GetStudentById(studentId) ==
    /\ reply' = [op |-> "getStudentById", studentId |-> studentId,
                 result |-> MemGetStudentById(students, studentId)]
    /\ UNCHANGED <<memVars, mongoVars, runVars, webVars>>

\* MemStorage.getStudentStats
GetStudentStats ==
    /\ reply' = [op |-> "getStudentStats",
                 result |-> MemGetStudentStats(students)]
    /\ UNCHANGED <<memVars, mongoVars, runVars, webVars>>

NoReply == [op |-> "none"]

MongoInit ==
    /\ studentDocs = <<>>
    /\ userDocs = <<>>
    /\ cache = <<>>
    /\ oidCounter = 0

RunInit ==
    /\ now = TickMs
    /\ procs = <<>>
    /\ calls = 0

WebInit(selected) ==
    /\ backend = selected
    /\ sessions = <<>>

InitMem == MemInit /\ MongoInit /\ RunInit /\ WebInit("mem") /\ reply = NoReply

NextMem ==
    \/ \E student \in MemStudentInputs :
           currentId <= MaxCreates /\ CreateStudent(student)
    \/ \E id \in StudentIds, studentData \in StudentUpdates :
           UpdateStudent(id, studentData)
    \/ \E id \in StudentIds : DeleteStudent(id)
    \/ \E studentId \in MemStudentCodes : GetStudentById(studentId)
    \/ GetStudentStats

\* MemStorage under any sequence of createStudent, updateStudent,
\* deleteStudent, getStudentById and getStudentStats
SpecMem == InitMem /\ [][NextMem]_vars

NextQuery ==
    \/ \E student \in StudentInputs :
           currentId <= MaxStudents /\ CreateStudent(student)
    \/ \E filters \in FilterInputs : GetStudents(filters)

\* getStudents on every collection that createStudent builds
SpecQuery == InitMem /\ [][NextQuery]_vars

-----------------------------------------------------------------------------
(* MongoStorage: identifiers *)

HexDigits ==
    <<"0", "1", "2", "3", "4", "5", "6", "7", "8", "9", "a", "b", "c", "d", "e", "f">>

\* n in hexadecimal, padded with zeros to width digits
RECURSIVE ToHex(_, _)
ToHex(n, width) ==
    IF width = 0 THEN <<>>
    ELSE Append(ToHex(n \div 16, width - 1), HexDigits[(n % 16) + 1])

HexValue(c) == CHOOSE v \in 0..15 : HexDigits[v + 1] = c

\* parseInt(s, 16) of a string of hexadecimal digits
RECURSIVE ParseHex(_)
ParseHex(s) ==
    IF s = <<>> THEN 0
    ELSE 16 * ParseHex(SubSeq(s, 1, Len(s) - 1)) + HexValue(s[Len(s)])

\* the five bytes an ObjectId carries of the process that generated it
ProcessUnique == <<"9", "f", "3", "c", "0", "a", "7", "7", "e", "1">>

\* the ObjectId generated at time ms with the process's counter at counter:
\* four bytes of seconds since the epoch, the five process bytes, three bytes
\* of counter; toString() is its 24 hexadecimal digits
ObjectIdHex(ms, counter) ==
    ToHex(ms \div 1000, 8) \o ProcessUnique \o ToHex(counter % 16777216, 6)

\* parseInt(doc._id.toString().substring(0, 8), 16)
NumericId(oid) == ParseHex(SubSeq(oid, 1, 8))

\* doc.key || '' of convertToStudent
OrEmpty(doc, key) == OrElse(doc, key, <<>>)

\* MongoStorage.convertToStudent
ConvertToStudent(doc) ==
    [id           |-> NumericId(doc._id),
     studentId    |-> doc.studentId,
     firstName    |-> doc.firstName,
     lastName     |-> doc.lastName,
     email        |-> doc.email,
     phone        |-> OrEmpty(doc, "phone"),
     grade        |-> doc.grade,
     classSection |-> OrEmpty(doc, "classSection"),
     address      |-> OrEmpty(doc, "address"),
     notes        |-> OrEmpty(doc, "notes"),
     status       |-> doc.status,
     userId       |-> Null]

\* MongoStorage.convertToUser
ConvertToUser(doc) ==
    [id        |-> NumericId(doc._id),
     username  |-> doc.username,
     password  |-> doc.password,
     role      |-> doc.role,
     createdAt |-> doc.createdAt,
     lastLogin |-> IF Has(doc, "lastLogin") THEN doc.lastLogin ELSE Null]

\* documents.map(doc => this.convertToStudent(doc))
ConvertAll(docs) == [i \in 1..Len(docs) |-> ConvertToStudent(docs[i])]

-----------------------------------------------------------------------------
(* MongoStorage: the backend *)


\* a string field that the schema requires: present and not empty
RequiredText(doc, key) == Has(doc, key) /\ doc[key] # <<>> /\ doc[key] # Null

\* new this.StudentModel(student): the schema's default status, the fields
\* given, and the ObjectId generated now
StudentDoc(oid, student) ==
    Spread(Spread([status |-> "active"], student), [_id |-> oid])

\* the validation of StudentSchema on save
ValidStudentDoc(doc) ==
    /\ RequiredText(doc, "studentId")
    /\ RequiredText(doc, "firstName")
    /\ RequiredText(doc, "lastName")
    /\ RequiredText(doc, "email")
    /\ Has(doc, "grade")
    /\ doc.status \in StatusEnum

\* the unique index on studentId
CodeFree(docs, oid, code) ==
    \A i \in 1..Len(docs) : docs[i].studentId = code => docs[i]._id = oid

\* new this.UserModel(userData): the schema's defaults (role, createdAt)
UserDoc(oid, userData, ms) ==
    Spread(Spread([role |-> "student", createdAt |-> ms], userData), [_id |-> oid])

\* the validation of UserSchema on save
ValidUserDoc(doc) ==
    /\ Has(doc, "username") /\ doc.username # ""
    /\ Has(doc, "password") /\ doc.password # ""
    /\ doc.role \in RoleEnum

\* the unique index on username
NameFree(docs, oid, name) ==
    \A i \in 1..Len(docs) : docs[i].username = name => docs[i]._id = oid

\* the code points of the characters used, in increasing order: the order
\* in which the backend compares strings when it sorts
CodePointOrder ==
    <<" ", ".", "0", "1", "2", "3", "4", "5", "6", "7", "8", "9", "@",
      "A", "B", "L", "O", "S", "T", "_", "a", "b", "l", "o", "s", "t">>

CodePointRank(c) == CHOOSE i \in 1..Len(CodePointOrder) : CodePointOrder[i] = c

BinaryCompare(a, b) ==
    LexCompare([i \in 1..Len(a) |-> CodePointRank(a[i])],
               [i \in 1..Len(b) |-> CodePointRank(b[i])])

\* { $regex: search, $options: 'i' } for a search text without regular
\* expression metacharacters: the text occurs in the field, case ignored
RegexMatchesI(text, search) == Includes(ToLowerCase(text), ToLowerCase(search))

\* the query object getStudents builds, applied to one document
QueryMatches(doc, filters) ==
    /\ (Has(filters, "status") /\ filters.status # "" /\ filters.status # "all")
           => doc.status = filters.status
    /\ (Has(filters, "grade") /\ filters.grade # 0) => doc.grade = filters.grade
    /\ (Has(filters, "search") /\ filters.search # <<>>)
           => \/ RegexMatchesI(doc.firstName, filters.search)
              \/ RegexMatchesI(doc.lastName, filters.search)
              \/ RegexMatchesI(doc.email, filters.search)
              \/ RegexMatchesI(doc.studentId, filters.search)

\* the sort specification getStudents hands to findQuery.sort: a sequence of
\* <<field, direction>>, empty when it asks for no sort
SortSpec(filters) ==
    IF Has(filters, "sort") /\ filters.sort # <<>>
    THEN LET parts   == Split(filters.sort, "_")
             field   == parts[1]
             sortDir == IF Len(parts) >= 2 /\ parts[2] = <<"a", "s", "c">>
                        THEN 1 ELSE -1
         IN  IF field = <<"n", "a", "m", "e">>
             THEN <<<<"firstName", sortDir>>, <<"lastName", sortDir>>>>
             ELSE IF field = <<"i", "d">> THEN <<<<"studentId", sortDir>>>>
             ELSE <<>>
    ELSE <<<<"firstName", 1>>>>

\* the comparison of two documents under a sort specification
RECURSIVE DocCompare(_, _, _)
DocCompare(spec, a, b) ==
    IF spec = <<>> THEN 0
    ELSE LET c == Head(spec)[2] * BinaryCompare(a[Head(spec)[1]], b[Head(spec)[1]])
         IN  IF c # 0 THEN c ELSE DocCompare(Tail(spec), a, b)

\* the orders in which the backend may return the matching documents: every
\* order that respects the sort specification (documents that compare equal
\* come in any order); the natural order when no sort is asked for
SortedOrders(docs, spec) ==
    IF spec = <<>> THEN {docs}
    ELSE { [i \in 1..Len(docs) |-> docs[perm[i]]] :
             perm \in { f \in [1..Len(docs) -> 1..Len(docs)] :
                          /\ \A i, j \in 1..Len(docs) : i # j => f[i] # f[j]
                          /\ \A i \in 1..(Len(docs) - 1) :
                                 DocCompare(spec, docs[f[i]], docs[f[i + 1]]) <= 0 } }

\* findQuery.skip(skip).limit(limit) when both page and limit are given
SkipLimit(docs, filters) ==
    IF Has(filters, "page") /\ filters.page # 0
       /\ Has(filters, "limit") /\ filters.limit # 0
    THEN LET skip == (filters.page - 1) * filters.limit
             lim  == IF filters.limit < 0 THEN -filters.limit ELSE filters.limit
         IN  SubSeq(docs, skip + 1, IF skip + lim > Len(docs) THEN Len(docs)
                                    ELSE skip + lim)
    ELSE docs

\* a negative skip makes the backend reject the query
QueryRejected(filters) ==
    /\ Has(filters, "page") /\ filters.page # 0
    /\ Has(filters, "limit") /\ filters.limit # 0
    /\ (filters.page - 1) * filters.limit < 0

\* the results findQuery.exec() may give for the query of getStudents
FindResults(docs, filters) ==
    LET matches(doc) == QueryMatches(doc, filters)
    IN  { SkipLimit(sorted, filters) :
            sorted \in SortedOrders(SelectSeq(docs, matches), SortSpec(filters)) }

\* StudentModel.findOne({ studentId })
FindOneByCode(docs, code) ==
    IF \E i \in 1..Len(docs) : docs[i].studentId = code
    THEN docs[CHOOSE i \in 1..Len(docs) :
                  /\ docs[i].studentId = code
                  /\ \A j \in 1..(i - 1) : docs[j].studentId # code]
    ELSE Undefined

\* UserModel.findOne({ username })
FindOneByName(docs, name) ==
    IF \E i \in 1..Len(docs) : docs[i].username = name
    THEN docs[CHOOSE i \in 1..Len(docs) :
                  /\ docs[i].username = name
                  /\ \A j \in 1..(i - 1) : docs[j].username # name]
    ELSE Undefined

\* users.find(u => parseInt(u._id.toString().substring(0, 8), 16) === id)
FindUserDocById(docs, id) ==
    IF \E i \in 1..Len(docs) : NumericId(docs[i]._id) = id
    THEN docs[CHOOSE i \in 1..Len(docs) :
                  /\ NumericId(docs[i]._id) = id
                  /\ \A j \in 1..(i - 1) : NumericId(docs[j]._id) # id]
    ELSE Undefined

\* students.find(s => s.id === id)
FindStudentById(studs, id) ==
    IF \E i \in 1..Len(studs) : studs[i].id = id
    THEN studs[CHOOSE i \in 1..Len(studs) :
                   /\ studs[i].id = id
                   /\ \A j \in 1..(i - 1) : studs[j].id # id]
    ELSE Undefined

\* the update document applied to the first document a filter selects
UpdateFirst(docs, Selected, update) ==
    [i \in 1..Len(docs) |->
        IF i \in Selected /\ \A j \in Selected : i <= j
        THEN Spread(docs[i], update) ELSE docs[i]]

\* countDocuments({ status })
CountStatus(docs, status) ==
    Cardinality({i \in 1..Len(docs) : docs[i].status = status})

\* the StudentStats object getStudentStats builds from its four counts
Stats(total, active, pending, inactive) ==
    [totalStudents |-> total, activeStudents |-> active,
     pendingApprovals |-> pending, issuesReported |-> inactive]

-----------------------------------------------------------------------------
(* MongoStorage: the cache *)

\* MongoStorage.setCache
SetCache(c, key, data) ==
    [k \in DOMAIN c \cup {key} |->
        IF k = key THEN [data |-> data, timestamp |-> now] ELSE c[k]]

\* a getCached that still gives the entry's data at the age of the TTL
CacheHitInclusive(c, key) ==
    key \in DOMAIN c /\ now - c[key].timestamp <= cacheTTL

\* MongoStorage.getCached gives the entry's data (and not null)
CacheHit(c, key) == key \in DOMAIN c /\ now - c[key].timestamp < cacheTTL

\* an invalidateCache that clears nothing
InvalidateCacheKeeps(c) == c

\* MongoStorage.invalidateCache
InvalidateCache(c) == <<>>

StudentsKey(filters) == <<"students", filters>>

StudentKey(id) == <<"student", id>>

StudentByIdKey(code) == <<"studentById", code>>

StatsKey == <<"studentStats">>

UserKey(id) == <<"user", id>>

UserByUsernameKey(name) == <<"userByUsername", name>>

-----------------------------------------------------------------------------
(* MongoStorage: the operations, each run from its call to its return with  *)
(* no other call in between.  An operation gives a set of outcomes (the     *)
(* backend may order equal sort keys either way); an outcome is what the    *)
(* call returns or throws and the state it leaves.                          *)

Outcome(error, result, c, sDocs, uDocs, counter) ==
    [error |-> error, result |-> result, cache |-> c, studentDocs |-> sDocs,
     userDocs |-> uDocs, oidCounter |-> counter]

\* an outcome that changes the cache at most
ReadOutcome(error, result, c) ==
    Outcome(error, result, c, studentDocs, userDocs, oidCounter)

\* MongoStorage.getStudents, started with the cache at c
GetStudentsRuns(c, filters) ==
    LET key == StudentsKey(filters)
    IN  IF CacheHit(c, key) THEN {ReadOutcome("", c[key].data, c)}
        ELSE IF QueryRejected(filters)
        THEN {ReadOutcome("Failed to fetch students", <<>>, c)}
        ELSE { ReadOutcome("", ConvertAll(docs), SetCache(c, key, ConvertAll(docs))) :
                 docs \in FindResults(studentDocs, filters) }

\* MongoStorage.getStudent, started with the cache at c
GetStudentRuns(c, id) ==
    LET key == StudentKey(id)
    IN  IF CacheHit(c, key) THEN {ReadOutcome("", c[key].data, c)}
        ELSE { IF all.error # ""
               THEN ReadOutcome("Failed to fetch student", Undefined, all.cache)
               ELSE LET student == FindStudentById(all.result, id)
                    IN  ReadOutcome("", student,
                                    IF student # Undefined
                                    THEN SetCache(all.cache, key, student)
                                    ELSE all.cache) :
                 all \in GetStudentsRuns(c, <<>>) }

\* MongoStorage.getStudentById
GetStudentByIdRuns(c, code) ==
    LET key == StudentByIdKey(code)
        doc == FindOneByCode(studentDocs, code)
    IN  IF CacheHit(c, key) THEN {ReadOutcome("", c[key].data, c)}
        ELSE IF doc = Undefined THEN {ReadOutcome("", Undefined, c)}
        ELSE {ReadOutcome("", ConvertToStudent(doc),
                          SetCache(c, key, ConvertToStudent(doc)))}

\* MongoStorage.createStudent
CreateStudentRuns(c, student) ==
    LET oid == ObjectIdHex(now, oidCounter)
        doc == StudentDoc(oid, student)
    IN  IF ValidStudentDoc(doc) /\ CodeFree(studentDocs, oid, doc.studentId)
        THEN {Outcome("", ConvertToStudent(doc), InvalidateCache(c),
                      Append(studentDocs, doc), userDocs, oidCounter + 1)}
        ELSE {Outcome("Failed to create student", Undefined, c,
                      studentDocs, userDocs, oidCounter + 1)}

\* the documents a filter on studentId selects
WithCode(docs, code) == {i \in 1..Len(docs) : docs[i].studentId = code}

\* MongoStorage.updateStudent
UpdateStudentRuns(c, id, studentData) ==
    { IF found.error # ""
      THEN ReadOutcome("Failed to update student", Undefined, found.cache)
      ELSE IF found.result = Undefined
      THEN ReadOutcome("", Undefined, found.cache)
      ELSE LET selected == WithCode(studentDocs, found.result.studentId)
               first    == CHOOSE i \in selected : \A j \in selected : i <= j
               updated  == UpdateFirst(studentDocs, selected, studentData)
           IN  IF selected = {} THEN ReadOutcome("", Undefined, found.cache)
               ELSE IF ~CodeFree(studentDocs, updated[first]._id,
                                 updated[first].studentId)
               THEN ReadOutcome("Failed to update student", Undefined, found.cache)
               ELSE Outcome("", ConvertToStudent(updated[first]),
                            InvalidateCache(found.cache), updated, userDocs,
                            oidCounter) :
        found \in GetStudentRuns(c, id) }

\* the collection without the first document a filter selects
DeleteFirst(docs, Selected) ==
    LET first == CHOOSE i \in Selected : \A j \in Selected : i <= j
    IN  IF Selected = {} THEN docs
        ELSE SubSeq(docs, 1, first - 1) \o SubSeq(docs, first + 1, Len(docs))

\* MongoStorage.deleteStudent
DeleteStudentRuns(c, id) ==
    { IF found.error # ""
      THEN ReadOutcome("Failed to delete student", FALSE, found.cache)
      ELSE IF found.result = Undefined
      THEN ReadOutcome("", FALSE, found.cache)
      ELSE LET selected == WithCode(studentDocs, found.result.studentId)
           IN  Outcome("", selected # {}, InvalidateCache(found.cache),
                       DeleteFirst(studentDocs, selected), userDocs, oidCounter) :
        found \in GetStudentRuns(c, id) }

\* MongoStorage.getStudentStats
GetStudentStatsRuns(c) ==
    LET stats == Stats(Len(studentDocs), CountStatus(studentDocs, "active"),
                       CountStatus(studentDocs, "pending"),
                       CountStatus(studentDocs, "inactive"))
    IN  IF CacheHit(c, StatsKey) THEN {ReadOutcome("", c[StatsKey].data, c)}
        ELSE {ReadOutcome("", stats, SetCache(c, StatsKey, stats))}

\* MongoStorage.getUser
GetUserRuns(c, id) ==
    LET key == UserKey(id)
        doc == FindUserDocById(userDocs, id)
    IN  IF CacheHit(c, key) THEN {ReadOutcome("", c[key].data, c)}
        ELSE IF doc = Undefined THEN {ReadOutcome("", Undefined, c)}
        ELSE {ReadOutcome("", ConvertToUser(doc), SetCache(c, key, ConvertToUser(doc)))}

\* MongoStorage.getUserByUsername
GetUserByUsernameRuns(c, username) ==
    LET key == UserByUsernameKey(username)
        doc == FindOneByName(userDocs, username)
    IN  IF CacheHit(c, key) THEN {ReadOutcome("", c[key].data, c)}
        ELSE IF doc = Undefined THEN {ReadOutcome("", Undefined, c)}
        ELSE {ReadOutcome("", ConvertToUser(doc), SetCache(c, key, ConvertToUser(doc)))}

\* MongoStorage.createUser
CreateUserRuns(c, userData) ==
    LET oid == ObjectIdHex(now, oidCounter)
        doc == UserDoc(oid, userData, now)
    IN  IF ValidUserDoc(doc) /\ NameFree(userDocs, oid, doc.username)
        THEN {Outcome("", ConvertToUser(doc), InvalidateCache(c), studentDocs,
                      Append(userDocs, doc), oidCounter + 1)}
        ELSE {Outcome("Failed to create user", Undefined, c, studentDocs,
                      userDocs, oidCounter + 1)}

\* MongoStorage.updateUser
UpdateUserRuns(c, id, userData) ==
    { IF found.error # ""
      THEN ReadOutcome("Failed to update user", Undefined, found.cache)
      ELSE IF found.result = Undefined
      THEN ReadOutcome("", Undefined, found.cache)
      ELSE LET userDoc  == FindUserDocById(userDocs, id)
               selected == {i \in 1..Len(userDocs) : userDocs[i]._id = userDoc._id}
               first    == CHOOSE i \in selected : \A j \in selected : i <= j
               updated  == UpdateFirst(userDocs, selected, userData)
           IN  IF userDoc = Undefined THEN ReadOutcome("", Undefined, found.cache)
               ELSE IF ~NameFree(userDocs, updated[first]._id,
                                 updated[first].username)
               THEN ReadOutcome("Failed to update user", Undefined, found.cache)
               ELSE Outcome("", ConvertToUser(updated[first]),
                            InvalidateCache(found.cache), studentDocs, updated,
                            oidCounter) :
        found \in GetUserRuns(c, id) }

\* the state an outcome leaves
Commit(outcome) ==
    /\ cache' = outcome.cache
    /\ studentDocs' = outcome.studentDocs
    /\ userDocs' = outcome.userDocs
    /\ oidCounter' = outcome.oidCounter

-----------------------------------------------------------------------------
(* Inputs of the MongoStorage specifications *)

\* InsertStudent values: two students with the same first name, the second
\* with no status
MongoStudentInputs ==
    { [studentId |-> <<"a", "1">>, firstName |-> <<"A", "l">>,
       lastName |-> <<"B", "o">>, email |-> <<"a", "@", "b">>, grade |-> 1,
       status |-> "pending"],
      [studentId |-> <<"b", "1">>, firstName |-> <<"A", "l">>,
       lastName |-> <<"S", "o">>, email |-> <<"s", "@", "b">>, grade |-> 2] }

MongoStudentUpdates == { [status |-> "inactive"], [studentId |-> <<"a", "1">>] }

MongoFilters == { <<>>, [status |-> "active"] }

StudentCodes == { <<"a", "1">> }

\* InsertUser values
UserInputs ==
    { [username |-> "admin", password |-> "password", role |-> "admin"],
      [username |-> "bob", password |-> "secret"] }

UserUpdates == { [role |-> "admin"] }

Usernames == {"bob"}

\* the numeric identifier a request names: that of the documents generated
\* at the first instant of the clock
FirstNumericId == TickMs \div 1000

-----------------------------------------------------------------------------
(* MongoStorage: one call after another *)

\* time passes
Tick ==
    /\ now < (MaxTicks + 1) * TickMs
    /\ now' = now + TickMs
    /\ UNCHANGED <<memVars, mongoVars, procs, calls, webVars, reply>>

\* a call of the sequential specification: counted, and run to its return
CallDone ==
    /\ calls < MaxCalls
    /\ calls' = calls + 1
    /\ UNCHANGED <<memVars, now, procs, webVars>>

MongoGetStudents(filters) ==
    \E o \in GetStudentsRuns(cache, filters) :
        /\ Commit(o)
        /\ reply' = [op |-> "getStudents", filters |-> filters,
                     error |-> o.error, result |-> o.result]
        /\ CallDone

MongoGetStudent(id) ==
    \E o \in GetStudentRuns(cache, id) :
        /\ Commit(o)
        /\ reply' = [op |-> "getStudent", id |-> id,
                     error |-> o.error, result |-> o.result]
        /\ CallDone

MongoGetStudentById(code) ==
    \E o \in GetStudentByIdRuns(cache, code) :
        /\ Commit(o)
        /\ reply' = [op |-> "getStudentById", studentId |-> code,
                     error |-> o.error, result |-> o.result]
        /\ CallDone

MongoCreateStudent(student) ==
    \E o \in CreateStudentRuns(cache, student) :
        /\ Commit(o)
        /\ reply' = [op |-> "createStudent", student |-> student,
                     error |-> o.error, result |-> o.result]
        /\ CallDone

MongoUpdateStudent(id, studentData) ==
    \E o \in UpdateStudentRuns(cache, id, studentData) :
        /\ Commit(o)
        /\ reply' = [op |-> "updateStudent", id |-> id, studentData |-> studentData,
                     error |-> o.error, result |-> o.result]
        /\ CallDone

MongoDeleteStudent(id) ==
    \E o \in DeleteStudentRuns(cache, id) :
        /\ Commit(o)
        /\ reply' = [op |-> "deleteStudent", id |-> id,
                     error |-> o.error, result |-> o.result]
        /\ CallDone

MongoGetStudentStats ==
    \E o \in GetStudentStatsRuns(cache) :
        /\ Commit(o)
        /\ reply' = [op |-> "getStudentStats", error |-> o.error,
                     result |-> o.result]
        /\ CallDone

MongoGetUser(id) ==
    \E o \in GetUserRuns(cache, id) :
        /\ Commit(o)
        /\ reply' = [op |-> "getUser", id |-> id,
                     error |-> o.error, result |-> o.result]
        /\ CallDone

MongoGetUserByUsername(username) ==
    \E o \in GetUserByUsernameRuns(cache, username) :
        /\ Commit(o)
        /\ reply' = [op |-> "getUserByUsername", username |-> username,
                     error |-> o.error, result |-> o.result]
        /\ CallDone

MongoCreateUser(userData) ==
    \E o \in CreateUserRuns(cache, userData) :
        /\ Commit(o)
        /\ reply' = [op |-> "createUser", userData |-> userData,
                     error |-> o.error, result |-> o.result]
        /\ CallDone

MongoUpdateUser(id, userData) ==
    \E o \in UpdateUserRuns(cache, id, userData) :
        /\ Commit(o)
        /\ reply' = [op |-> "updateUser", id |-> id, userData |-> userData,
                     error |-> o.error, result |-> o.result]
        /\ CallDone

InitMongo == MemInit /\ MongoInit /\ RunInit /\ WebInit("mongo") /\ reply = NoReply

NextMongoSeq ==
    \/ \E filters \in MongoFilters : MongoGetStudents(filters)
    \/ MongoGetStudent(FirstNumericId)
    \/ \E code \in StudentCodes : MongoGetStudentById(code)
    \/ \E student \in MongoStudentInputs : MongoCreateStudent(student)
    \/ \E studentData \in MongoStudentUpdates :
           MongoUpdateStudent(FirstNumericId, studentData)
    \/ MongoDeleteStudent(FirstNumericId)
    \/ MongoGetStudentStats
    \/ MongoGetUser(FirstNumericId)
    \/ \E username \in Usernames : MongoGetUserByUsername(username)
    \/ \E userData \in UserInputs : MongoCreateUser(userData)
    \/ \E userData \in UserUpdates : MongoUpdateUser(FirstNumericId, userData)
    \/ Tick

\* MongoStorage with its operations called one after another
SpecMongoSeq == InitMongo /\ [][NextMongoSeq]_vars

\* the storage the server selects when it starts: MongoStorage, or MemStorage
\* when the MongoStorage constructor throws
InitStorage == InitMongo \/ InitMem

\* the operations of MongoStorage on the student collection
NextMongoStudents ==
    \/ \E filters \in MongoFilters : MongoGetStudents(filters)
    \/ MongoGetStudent(FirstNumericId)
    \/ \E code \in StudentCodes : MongoGetStudentById(code)
    \/ \E student \in MongoStudentInputs : MongoCreateStudent(student)
    \/ \E studentData \in MongoStudentUpdates :
           MongoUpdateStudent(FirstNumericId, studentData)
    \/ MongoDeleteStudent(FirstNumericId)
    \/ MongoGetStudentStats
    \/ Tick

NextStorage ==
    \/ backend = "mongo" /\ NextMongoStudents
    \/ backend = "mem" /\ NextMem

\* the selected storage with its operations on the student collection called
\* one after another
SpecStorage == InitStorage /\ [][NextStorage]_vars

\* the numeric identifier of a document saved one second before the clock's
\* first instant
StoredNumericId == FirstNumericId - 1

\* the collection when the server starts on a database that holds a student
\* saved by an earlier run
StoredStudentDocs ==
    << StudentDoc(ObjectIdHex(TickMs - (TickMs \div FirstNumericId), 0),
                  CHOOSE student \in MongoStudentInputs :
                      student.studentId \in StudentCodes) >>

InitStored ==
    /\ MemInit
    /\ studentDocs = StoredStudentDocs
    /\ userDocs = <<>>
    /\ cache = <<>>
    /\ oidCounter = 0
    /\ RunInit
    /\ WebInit("mongo")
    /\ reply = NoReply

NextStored ==
    \/ \E filters \in MongoFilters : MongoGetStudents(filters)
    \/ MongoGetStudent(StoredNumericId)
    \/ \E code \in StudentCodes : MongoGetStudentById(code)
    \/ MongoGetStudentStats
    \/ \E studentData \in MongoStudentUpdates :
           MongoUpdateStudent(StoredNumericId, studentData)
    \/ Tick

\* MongoStorage's reads and updateStudent, one call after another as the
\* clock advances, over a collection that holds a student
SpecMongoStored == InitStored /\ [][NextStored]_vars

\* InsertStudent values for createStudent on either backend: one with a
\* student code and one that omits it (and its status)
CreateInputs ==
    {student \in StudentInputs : ~Has(student, "studentId") \/ Has(student, "phone")}

NextCreate ==
    \/ backend = "mongo" /\ \E student \in CreateInputs : MongoCreateStudent(student)
    \/ backend = "mongo" /\ \E code \in MemStudentCodes : MongoGetStudentById(code)
    \/ backend = "mongo" /\ Tick
    \/ backend = "mem" /\ \E student \in CreateInputs :
                              currentId <= MaxCreates /\ CreateStudent(student)
    \/ backend = "mem" /\ \E studentId \in MemStudentCodes : GetStudentById(studentId)

\* createStudent and the read by code on the storage the server selected
SpecCreate == InitStorage /\ [][NextCreate]_vars

\* Partial<InsertStudent> values for updateStudent on a stored document: a
\* status of the enumeration, one outside it, and a grade alone
StoredStudentUpdates == { [status |-> "inactive"], [status |-> "bogus"], [grade |-> 3] }

NextStoredUpdate ==
    \/ \E studentData \in StoredStudentUpdates :
           MongoUpdateStudent(StoredNumericId, studentData)
    \/ MongoGetStudent(StoredNumericId)
    \/ \E filters \in MongoFilters : MongoGetStudents(filters)
    \/ Tick

\* MongoStorage.updateStudent and the reads of the student, over a
\* collection that holds a student
SpecMongoUpdate == InitStored /\ [][NextStoredUpdate]_vars

-----------------------------------------------------------------------------
(* MongoStorage: interleaved calls.  A call runs until it awaits the        *)
(* backend; the backend executes the request at some later step; the call   *)
(* resumes at some step after that.  procs[k] is the k-th call: its         *)
(* operation, its position, its arguments and its locals.                   *)

Done == [op |-> "done", pc |-> "done"]

Proc(op, pc, arg, loc) == [op |-> op, pc |-> pc, arg |-> arg, loc |-> loc]

\* the calls in flight
InFlight == {k \in 1..Len(procs) : procs[k].pc # "done"}

\* a new call, which stands at proc when it first awaits or returns
Started(proc) ==
    /\ calls < MaxAsyncCalls
    /\ calls' = calls + 1
    /\ procs' = Append(procs, proc)

\* call k moves on to proc
Moved(k, proc) ==
    /\ procs' = [procs EXCEPT ![k] = proc]
    /\ UNCHANGED calls

\* call k, awaiting at position pc
Awaits(k, pc) == k \in InFlight /\ procs[k].pc = pc

\* what a call returns or throws
Returned(op, arg, error, result) ==
    Spread(arg, [op |-> op, error |-> error, result |-> result])

AsyncFrame == UNCHANGED <<memVars, userDocs, now, webVars>>

\* getStudents up to the await of findQuery.exec()
CallGetStudents(filters) ==
    LET key == StudentsKey(filters)
        arg == [filters |-> filters]
    IN  /\ IF CacheHit(cache, key)
           THEN /\ Started(Done)
                /\ reply' = Returned("getStudents", arg, "", cache[key].data)
           ELSE /\ Started(Proc("getStudents", "find", arg, <<>>))
                /\ UNCHANGED reply
        /\ UNCHANGED <<studentDocs, cache, oidCounter>>
        /\ AsyncFrame

\* the backend executes the find of call k
BackendFind(k) ==
    /\ Awaits(k, "find")
    /\ LET p == procs[k]
           filters == IF p.op = "getStudents" THEN p.arg.filters ELSE <<>>
       IN  IF QueryRejected(filters)
           THEN Moved(k, Proc(p.op, "found", p.arg, [failed |-> TRUE]))
           ELSE \E docs \in FindResults(studentDocs, filters) :
                    Moved(k, Proc(p.op, "found", p.arg,
                                  [failed |-> FALSE, docs |-> docs]))
    /\ UNCHANGED <<studentDocs, cache, oidCounter, reply>>
    /\ AsyncFrame

\* getStudents from the return of findQuery.exec()
ResumeGetStudents(k) ==
    /\ Awaits(k, "found")
    /\ procs[k].op = "getStudents"
    /\ LET p == procs[k]
           list == ConvertAll(p.loc.docs)
       IN  IF p.loc.failed
           THEN /\ reply' = Returned(p.op, p.arg, "Failed to fetch students", <<>>)
                /\ UNCHANGED cache
           ELSE /\ reply' = Returned(p.op, p.arg, "", list)
                /\ cache' = SetCache(cache, StudentsKey(p.arg.filters), list)
    /\ Moved(k, Done)
    /\ UNCHANGED <<studentDocs, oidCounter>>
    /\ AsyncFrame

\* where getStudent, updateStudent and deleteStudent stand once getStudent
\* has given them the student: returned, or awaiting their write
AfterLookup(op, arg, student) ==
    IF op = "getStudent" \/ student = Undefined THEN Done
    ELSE Proc(op, IF op = "updateStudent" THEN "update" ELSE "delete", arg,
              [code |-> student.studentId])

\* what they return when they return there
LookupReturned(op, arg, student) ==
    Returned(op, arg, "",
             IF op = "deleteStudent" THEN FALSE
             ELSE IF op = "updateStudent" THEN Undefined ELSE student)

\* getStudent(id) over the list getStudents() gave it
Looked(c, id, list) ==
    LET student == FindStudentById(list, id)
    IN  [student |-> student,
         cache |-> IF student # Undefined
                   THEN SetCache(c, StudentKey(id), student) ELSE c]

\* getStudent, updateStudent, deleteStudent up to their first await of the
\* backend: the find of getStudents() unless the cache answers
CallLookup(op, arg) ==
    LET key == StudentKey(arg.id)
        all == StudentsKey(<<>>)
        looked == Looked(cache, arg.id, cache[all].data)
        student == IF CacheHit(cache, key) THEN cache[key].data
                   ELSE looked.student
    IN  /\ IF CacheHit(cache, key) \/ CacheHit(cache, all)
           THEN /\ Started(AfterLookup(op, arg, student))
                /\ cache' = IF CacheHit(cache, key) THEN cache ELSE looked.cache
                /\ reply' = IF AfterLookup(op, arg, student) = Done
                            THEN LookupReturned(op, arg, student) ELSE reply
           ELSE /\ Started(Proc(op, "find", arg, <<>>))
                /\ UNCHANGED <<cache, reply>>
        /\ UNCHANGED <<studentDocs, oidCounter>>
        /\ AsyncFrame

CallGetStudent(id) == CallLookup("getStudent", [id |-> id])

CallUpdateStudent(id, studentData) ==
    CallLookup("updateStudent", [id |-> id, studentData |-> studentData])

CallDeleteStudent(id) == CallLookup("deleteStudent", [id |-> id])

\* getStudent, updateStudent, deleteStudent from the return of the find of
\* getStudents(): getStudents caches its list, getStudent caches the student
ResumeLookup(k) ==
    /\ Awaits(k, "found")
    /\ procs[k].op \in {"getStudent", "updateStudent", "deleteStudent"}
    /\ LET p == procs[k]
           list == ConvertAll(p.loc.docs)
           looked == Looked(SetCache(cache, StudentsKey(<<>>), list),
                            p.arg.id, list)
           next == AfterLookup(p.op, p.arg, looked.student)
       IN  /\ cache' = looked.cache
           /\ Moved(k, next)
           /\ reply' = IF next = Done
                       THEN LookupReturned(p.op, p.arg, looked.student)
                       ELSE reply
    /\ UNCHANGED <<studentDocs, oidCounter>>
    /\ AsyncFrame

\* createStudent up to the await of newStudent.save()
CallCreateStudent(student) ==
    /\ Started(Proc("createStudent", "save", [student |-> student],
                    [doc |-> StudentDoc(ObjectIdHex(now, oidCounter), student)]))
    /\ oidCounter' = oidCounter + 1
    /\ UNCHANGED <<studentDocs, cache, reply>>
    /\ AsyncFrame

\* the document of call k is validated and the backend inserts it
BackendSave(k) ==
    /\ Awaits(k, "save")
    /\ LET p == procs[k]
           doc == p.loc.doc
           ok == ValidStudentDoc(doc) /\ CodeFree(studentDocs, doc._id, doc.studentId)
       IN  /\ studentDocs' = IF ok THEN Append(studentDocs, doc) ELSE studentDocs
           /\ Moved(k, Proc(p.op, "saved", p.arg, [doc |-> doc, failed |-> ~ok]))
    /\ UNCHANGED <<cache, oidCounter, reply>>
    /\ AsyncFrame

\* createStudent from the return of newStudent.save()
ResumeCreateStudent(k) ==
    /\ Awaits(k, "saved")
    /\ LET p == procs[k]
       IN  IF p.loc.failed
           THEN /\ reply' = Returned(p.op, p.arg, "Failed to create student", Undefined)
                /\ UNCHANGED cache
           ELSE /\ reply' = Returned(p.op, p.arg, "", ConvertToStudent(p.loc.doc))
                /\ cache' = InvalidateCache(cache)
    /\ Moved(k, Done)
    /\ UNCHANGED <<studentDocs, oidCounter>>
    /\ AsyncFrame

\* the backend executes the findOneAndUpdate of call k
BackendUpdate(k) ==
    /\ Awaits(k, "update")
    /\ LET p == procs[k]
           selected == WithCode(studentDocs, p.loc.code)
           first    == CHOOSE i \in selected : \A j \in selected : i <= j
           updated  == UpdateFirst(studentDocs, selected, p.arg.studentData)
       IN  IF selected = {}
           THEN /\ Moved(k, Proc(p.op, "updated", p.arg,
                                 [failed |-> FALSE, doc |-> Undefined]))
                /\ UNCHANGED studentDocs
           ELSE IF ~CodeFree(studentDocs, updated[first]._id, updated[first].studentId)
           THEN /\ Moved(k, Proc(p.op, "updated", p.arg, [failed |-> TRUE]))
                /\ UNCHANGED studentDocs
           ELSE /\ Moved(k, Proc(p.op, "updated", p.arg,
                                 [failed |-> FALSE, doc |-> updated[first]]))
                /\ studentDocs' = updated
    /\ UNCHANGED <<cache, oidCounter, reply>>
    /\ AsyncFrame

\* updateStudent from the return of findOneAndUpdate
ResumeUpdateStudent(k) ==
    /\ Awaits(k, "updated")
    /\ LET p == procs[k]
       IN  IF p.loc.failed
           THEN /\ reply' = Returned(p.op, p.arg, "Failed to update student", Undefined)
                /\ UNCHANGED cache
           ELSE IF p.loc.doc = Undefined
           THEN /\ reply' = Returned(p.op, p.arg, "", Undefined)
                /\ UNCHANGED cache
           ELSE /\ reply' = Returned(p.op, p.arg, "", ConvertToStudent(p.loc.doc))
                /\ cache' = InvalidateCache(cache)
    /\ Moved(k, Done)
    /\ UNCHANGED <<studentDocs, oidCounter>>
    /\ AsyncFrame

\* the backend executes the deleteOne of call k
BackendDelete(k) ==
    /\ Awaits(k, "delete")
    /\ LET p == procs[k]
           selected == WithCode(studentDocs, p.loc.code)
       IN  /\ studentDocs' = DeleteFirst(studentDocs, selected)
           /\ Moved(k, Proc(p.op, "deleted", p.arg, [deleted |-> selected # {}]))
    /\ UNCHANGED <<cache, oidCounter, reply>>
    /\ AsyncFrame

\* deleteStudent from the return of deleteOne
ResumeDeleteStudent(k) ==
    /\ Awaits(k, "deleted")
    /\ reply' = Returned(procs[k].op, procs[k].arg, "", procs[k].loc.deleted)
    /\ cache' = InvalidateCache(cache)
    /\ Moved(k, Done)
    /\ UNCHANGED <<studentDocs, oidCounter>>
    /\ AsyncFrame

\* the filters of the four countDocuments of getStudentStats, in order
CountFilters == <<"", "active", "pending", "inactive">>

\* getStudentStats up to the await of its first countDocuments
CallGetStudentStats ==
    /\ IF CacheHit(cache, StatsKey)
       THEN /\ Started(Done)
            /\ reply' = Returned("getStudentStats", <<>>, "", cache[StatsKey].data)
       ELSE /\ Started(Proc("getStudentStats", "count", <<>>, [counts |-> <<>>]))
            /\ UNCHANGED reply
    /\ UNCHANGED <<studentDocs, cache, oidCounter>>
    /\ AsyncFrame

\* the backend executes the countDocuments call k awaits.  After each count
\* but the last the call resumes only to await the next count, which touches
\* nothing another call can see: that resumption is taken with the count.
BackendCount(k) ==
    /\ Awaits(k, "count")
    /\ LET p == procs[k]
           status == CountFilters[Len(p.loc.counts) + 1]
           count == IF status = "" THEN Len(studentDocs)
                    ELSE CountStatus(studentDocs, status)
           counts == Append(p.loc.counts, count)
       IN  Moved(k, Proc(p.op,
                         IF Len(counts) < Len(CountFilters) THEN "count"
                         ELSE "counted",
                         p.arg, [counts |-> counts]))
    /\ UNCHANGED <<studentDocs, cache, oidCounter, reply>>
    /\ AsyncFrame

\* getStudentStats from the return of its last countDocuments
ResumeGetStudentStats(k) ==
    /\ Awaits(k, "counted")
    /\ LET p == procs[k]
           counts == p.loc.counts
           stats == Stats(counts[1], counts[2], counts[3], counts[4])
       IN  /\ Moved(k, Done)
           /\ cache' = SetCache(cache, StatsKey, stats)
           /\ reply' = Returned(p.op, p.arg, "", stats)
    /\ UNCHANGED <<studentDocs, oidCounter>>
    /\ AsyncFrame

\* the calls the interleaved specification makes
AsyncFilters == { <<>>, [page |-> -1, limit |-> 1] }

AsyncUpdates == { [status |-> "inactive"] }

NextMongo ==
    \/ \E filters \in AsyncFilters : CallGetStudents(filters)
    \/ CallGetStudent(FirstNumericId)
    \/ \E studentData \in AsyncUpdates : CallUpdateStudent(FirstNumericId, studentData)
    \/ CallDeleteStudent(FirstNumericId)
    \/ \E student \in MongoStudentInputs : CallCreateStudent(student)
    \/ CallGetStudentStats
    \/ \E k \in 1..Len(procs) : BackendFind(k)
    \/ \E k \in 1..Len(procs) : BackendSave(k)
    \/ \E k \in 1..Len(procs) : BackendUpdate(k)
    \/ \E k \in 1..Len(procs) : BackendDelete(k)
    \/ \E k \in 1..Len(procs) : BackendCount(k)
    \/ \E k \in 1..Len(procs) : ResumeGetStudents(k)
    \/ \E k \in 1..Len(procs) : ResumeLookup(k)
    \/ \E k \in 1..Len(procs) : ResumeCreateStudent(k)
    \/ \E k \in 1..Len(procs) : ResumeUpdateStudent(k)
    \/ \E k \in 1..Len(procs) : ResumeDeleteStudent(k)
    \/ \E k \in 1..Len(procs) : ResumeGetStudentStats(k)
    \/ Tick

\* MongoStorage with its student operations called while others are awaiting
SpecMongo == InitMongo /\ [][NextMongo]_vars

-----------------------------------------------------------------------------
(* Authentication over MemStorage: POST /api/register and POST /api/login.  *)
(* A handler runs until it awaits; MemStorage answers within the call, so   *)
(* what the handler awaits is already computed when it suspends.            *)

\* hashPassword
HashPassword(password) == password

\* comparePasswords
ComparePasswords(supplied, stored) == supplied = stored

\* the demo accounts and students created when MemStorage is selected (the
\* longer texts of the students shortened)
SeedUsers ==
    << NewUser(1, [username |-> "admin", password |-> "password",
                   role |-> "admin"], TickMs),
       NewUser(2, [username |-> "student", password |-> "password",
                   role |-> "student"], TickMs) >>

SeedStudents ==
    << NewStudent(1, [studentId |-> <<"S", "T", "1", "0", "0", "2", "3">>,
                      firstName |-> <<"J", "o", "h", "n">>,
                      lastName |-> <<"D", "o", "e">>,
                      email |-> <<"j", "@", "e">>, phone |-> <<"1">>,
                      grade |-> 10, classSection |-> <<"1", "0", "A">>,
                      status |-> "active", address |-> <<"1">>,
                      notes |-> <<"H">>], 10001),
       NewStudent(2, [studentId |-> <<"S", "T", "1", "0", "0", "2", "4">>,
                      firstName |-> <<"J", "a", "n", "e">>,
                      lastName |-> <<"S", "m", "i", "t", "h">>,
                      email |-> <<"j", "@", "e">>, phone |-> <<"1">>,
                      grade |-> 11, classSection |-> <<"1", "1", "B">>,
                      status |-> "active", address |-> <<"4">>,
                      notes |-> <<>>], 10001) >>

\* MemStorage once the demo data is created
SeededInit ==
    /\ students = SeedStudents
    /\ users = SeedUsers
    /\ currentId = Len(SeedStudents) + 1
    /\ currentStudentIdNum = 10001
    /\ currentUserId = Len(SeedUsers) + 1

\* the value false that the verify callback hands to done
False == [false |-> TRUE]

\* what the verify callback hands to done: an error or null, and a user or false
Verified(err, user) == [err |-> err, user |-> user]

\* a verify callback that reports an unknown username as an error
VerifyTelling(user, password) ==
    IF user = Undefined THEN Verified(<<"Error", "Unknown user">>, False)
    ELSE IF ~ComparePasswords(password, user.password) THEN Verified(Null, False)
    ELSE Verified(Null, user)

\* the verify callback of the LocalStrategy, from the return of
\* storage.getUserByUsername
Verify(user, password) ==
    IF user = Undefined THEN Verified(Null, False)
    ELSE IF ~ComparePasswords(password, user.password) THEN Verified(Null, False)
    ELSE Verified(Null, user)

Response(status, body) == [status |-> status, body |-> body]

\* a login callback that answers with the user as stored
LoginResponseWhole(verified) ==
    IF verified.err # Null
    THEN Response(500, [message |-> verified.err[2]])
    ELSE IF verified.user = False
    THEN Response(401, [message |-> "Invalid credentials"])
    ELSE Response(200, verified.user)

\* the callback POST /api/login gives to passport.authenticate
LoginResponse(verified) ==
    IF verified.err # Null
    THEN Response(500, [message |-> verified.err[2]])
    ELSE IF verified.user = False
    THEN Response(401, [message |-> "Invalid credentials"])
    ELSE Response(200, Without(verified.user, "password"))

\* req.login: serializeUser stores user.id in a new session.  owner is the
\* user who logged in, kept for the properties.
LoggedIn(ss, user) == Append(ss, [user |-> user.id, owner |-> user.username])

\* a request answered: its response, and what its lookup saw
Answered(p, response) ==
    Proc(p.op, "done", p.arg, [response |-> response, seen |-> p.loc.seen])

StartedAuth(proc) ==
    /\ calls < MaxAuthCalls
    /\ calls' = calls + 1
    /\ procs' = Append(procs, proc)

AuthFrame ==
    UNCHANGED <<students, currentId, currentStudentIdNum, mongoVars, now,
                backend, reply>>

\* POST /api/register up to the await of storage.getUserByUsername
CallRegister(body) ==
    /\ StartedAuth(Proc("register", "lookup", body,
                        [existingUser |-> MemGetUserByUsername(users, body.username),
                         seen |-> users]))
    /\ UNCHANGED <<users, currentUserId, sessions>>
    /\ AuthFrame

\* POST /api/register from the return of storage.getUserByUsername.  The
\* awaits of hashPassword and createUser that follow suspend the handler
\* without reading or writing anything another handler can see before
\* createUser has run, and req.login touches the request's session only:
\* they are taken in this step.
ResumeRegister(k) ==
    /\ Awaits(k, "lookup")
    /\ procs[k].op = "register"
    /\ LET p == procs[k]
           user == NewUser(currentUserId,
                           Spread(p.arg, [password |-> HashPassword(p.arg.password)]),
                           now)
       IN  IF p.loc.existingUser # Undefined
           THEN /\ Moved(k, Answered(p, Response(400,
                                [message |-> "Username already exists"])))
                /\ UNCHANGED <<users, currentUserId, sessions>>
           ELSE /\ users' = MapSet(users, user.id, user)
                /\ currentUserId' = currentUserId + 1
                /\ sessions' = LoggedIn(sessions, user)
                /\ Moved(k, Answered(p, Response(201, Without(user, "password"))))
    /\ AuthFrame

\* POST /api/login up to the await of storage.getUserByUsername in the
\* verify callback
CallLogin(body) ==
    /\ StartedAuth(Proc("login", "lookup", body,
                        [user |-> MemGetUserByUsername(users, body.username),
                         seen |-> users]))
    /\ UNCHANGED <<users, currentUserId, sessions>>
    /\ AuthFrame

\* POST /api/login from the return of storage.getUserByUsername
ResumeLogin(k) ==
    /\ Awaits(k, "lookup")
    /\ procs[k].op = "login"
    /\ LET p == procs[k]
           verified == Verify(p.loc.user, p.arg.password)
       IN  /\ Moved(k, Answered(p, LoginResponse(verified)))
           /\ sessions' = IF verified.err = Null /\ verified.user # False
                          THEN LoggedIn(sessions, verified.user) ELSE sessions
    /\ UNCHANGED <<users, currentUserId>>
    /\ AuthFrame

\* the request bodies: two registrations of one new username, and logins
\* with a demo account, a wrong password, an unknown username and the
\* second registration
RegisterBodies ==
    { [username |-> "bob", password |-> "secret"],
      [username |-> "bob", password |-> "hunter2", role |-> "admin"] }

LoginBodies ==
    { [username |-> "admin", password |-> "password"],
      [username |-> "admin", password |-> "wrong"],
      [username |-> "ghost", password |-> "password"],
      [username |-> "bob", password |-> "hunter2"] }

InitAuth == SeededInit /\ MongoInit /\ RunInit /\ WebInit("mem") /\ reply = NoReply

NextAuth ==
    \/ \E body \in RegisterBodies : CallRegister(body)
    \/ \E k \in 1..Len(procs) : ResumeRegister(k)
    \/ \E body \in LoginBodies : CallLogin(body)
    \/ \E k \in 1..Len(procs) : ResumeLogin(k)

\* registrations and logins over MemStorage, handlers interleaved at their
\* awaits
SpecAuth == InitAuth /\ [][NextAuth]_vars

\* MemStorage holding the demo accounts and students, under the operations
\* of the MemStorage specification
SpecMemSeeded == InitAuth /\ [][NextMem]_vars

\* the process before the storage module is evaluated
InitStart ==
    MemInit /\ MongoInit /\ RunInit /\ WebInit("starting") /\ reply = NoReply

\* the run of the MongoStorage constructor: whether the connection that
\* mongoose.connect opens comes to be established, and whether a statement
\* of the constructor threw
Constructed(connects, thrown) ==
    Proc("MongoStorage", "done", [connects |-> connects], [thrown |-> thrown])

\* the evaluation of the storage module.  mongoose.connect returns a promise
\* that the constructor does not await, so the outcome of the connection is
\* not known to the try block; the catch branch runs when a statement of
\* the constructor throws.  The demo data of the catch branch is created by
\* calls that MemStorage answers without waiting, before any request.
Start(connects, thrown) ==
    /\ backend = "starting"
    /\ procs' = <<Constructed(connects, thrown)>>
    /\ IF thrown
       THEN /\ backend' = "mem"
            /\ students' = SeedStudents
            /\ users' = SeedUsers
            /\ currentId' = Len(SeedStudents) + 1
            /\ currentUserId' = Len(SeedUsers) + 1
            /\ UNCHANGED currentStudentIdNum
       ELSE /\ backend' = "mongo"
            /\ UNCHANGED memVars
    /\ reply' = [op |-> "start"]
    /\ UNCHANGED <<mongoVars, now, calls, sessions>>

\* the connection of the selected MongoStorage is established
Connected == backend = "mongo" /\ procs[1].arg.connects

\* the start of the process and the calls that follow it; on a MongoStorage
\* whose connection failed no call returns
NextStart ==
    \/ \E connects, thrown \in BOOLEAN : Start(connects, thrown)
    \/ backend = "mem" /\ \E id \in StudentIds, studentData \in StudentUpdates :
                              UpdateStudent(id, studentData)
    \/ backend = "mem" /\ \E id \in StudentIds : DeleteStudent(id)
    \/ backend = "mem" /\ GetStudentStats
    \/ Connected /\ \E student \in MongoStudentInputs : MongoCreateStudent(student)
    \/ Connected /\ MongoGetStudentStats
    \/ Connected /\ Tick

\* the selection of the storage backend when the process starts
SpecStart == InitStart /\ [][NextStart]_vars

\* insertUserSchema: username and password are required texts, the password
\* has at least 6 characters and equals confirmPassword; role is the text
\* column of the users table, any string, and may be absent
InsertUserValid(body) ==
    /\ {"username", "password", "confirmPassword"} \subseteq DOMAIN body
    /\ Len(body.password) >= 6
    /\ body.password = body.confirmPassword

\* registrations as the form's fields give them: a valid one, a short
\* password, a confirmation that differs, and a role outside the enumeration
RegistrationBodies ==
    { [username |-> "bob", password |-> "secret", confirmPassword |-> "secret",
       role |-> "student"],
      [username |-> "cy", password |-> "abc", confirmPassword |-> "abc"],
      [username |-> "di", password |-> "secret", confirmPassword |-> "secreT"],
      [username |-> "ed", password |-> "secret", confirmPassword |-> "secret",
       role |-> "teacher"] }

NextRegister ==
    \/ \E body \in RegistrationBodies : CallRegister(body)
    \/ \E k \in 1..Len(procs) : ResumeRegister(k)

\* POST /api/register over MemStorage with every kind of registration
SpecRegister == InitAuth /\ [][NextRegister]_vars

-----------------------------------------------------------------------------
(* The authenticated routes over MongoStorage, one request after another.   *)
(* A request carries the cookie of a session or none; session 0 is none.    *)

\* passport.deserializeUser: storage.getUser(id) of the id the session holds
Deserialized(c, s) ==
    IF s = 0 THEN {[user |-> Undefined, cache |-> c]}
    ELSE {[user |-> o.result, cache |-> o.cache] :
            o \in GetUserRuns(c, sessions[s].user)}

\* req.isAuthenticated()
IsAuthenticated(user) == user # Undefined

\* the test of the isAdmin middleware
IsAdmin(user) == IsAuthenticated(user) /\ user.role = "admin"

Unauthorized == Response(401, [message |-> "Unauthorized"])

Forbidden == Response(403, [message |-> "Forbidden - Admin access required"])

\* idParamSchema
IdParamValid(id) == id \in Nat /\ id > 0

\* an address with text on both sides of an @
IsEmail(text) ==
    \E i \in 2..(Len(text) - 1) :
        /\ text[i] = "@"
        /\ \A j \in 1..Len(text) : j # i => text[j] # "@"

\* insertStudentSchema: the keys it requires and the values it accepts
InsertStudentValid(body) ==
    /\ {"studentId", "firstName", "lastName", "email", "grade"} \subseteq DOMAIN body
    /\ IsEmail(body.email)
    /\ body.grade \in Int /\ body.grade >= 1

\* insertStudentSchema.partial()
PartialStudentValid(body) ==
    /\ "email" \in DOMAIN body => IsEmail(body.email)
    /\ "grade" \in DOMAIN body => body.grade \in Int /\ body.grade >= 1

\* a request counted, and what the routes leave alone
RequestDone ==
    /\ calls < MaxRequests
    /\ calls' = calls + 1
    /\ UNCHANGED <<memVars, now, procs, backend>>

\* the request stopped by a middleware or by validation: storage is reached
\* by deserializeUser only
Refused(route, s, d, response) ==
    /\ reply' = [op |-> route, session |-> s, reached |-> FALSE,
                 response |-> response]
    /\ cache' = d.cache
    /\ UNCHANGED <<studentDocs, userDocs, oidCounter, sessions>>
    /\ RequestDone

\* the request whose handler called storage, with outcome o
Served(route, s, o, response) ==
    /\ reply' = [op |-> route, session |-> s, reached |-> TRUE,
                 response |-> response]
    /\ Commit(o)
    /\ UNCHANGED sessions
    /\ RequestDone

\* the same two for a request with a body, which the reply keeps
RefusedBody(route, s, body, d, response) ==
    /\ reply' = [op |-> route, session |-> s, body |-> body, reached |-> FALSE,
                 response |-> response]
    /\ cache' = d.cache
    /\ UNCHANGED <<studentDocs, userDocs, oidCounter, sessions>>
    /\ RequestDone

ServedBody(route, s, body, o, response) ==
    /\ reply' = [op |-> route, session |-> s, body |-> body, reached |-> TRUE,
                 response |-> response]
    /\ Commit(o)
    /\ UNCHANGED sessions
    /\ RequestDone

\* GET /api/stats
RouteGetStats(s) ==
    \E d \in Deserialized(cache, s) :
        IF ~IsAdmin(d.user) THEN Refused("GET /api/stats", s, d, Forbidden)
        ELSE \E o \in GetStudentStatsRuns(d.cache) :
                 Served("GET /api/stats", s, o, Response(200, o.result))

\* GET /api/students
RouteGetStudents(s, filters) ==
    \E d \in Deserialized(cache, s) :
        IF ~IsAuthenticated(d.user)
        THEN Refused("GET /api/students", s, d, Unauthorized)
        ELSE \E o \in GetStudentsRuns(d.cache, filters) :
                 Served("GET /api/students", s, o,
                        IF o.error # ""
                        THEN Response(500, [message |-> "Failed to fetch students"])
                        ELSE Response(200, o.result))

\* GET /api/students/:id
RouteGetStudent(s, id) ==
    \E d \in Deserialized(cache, s) :
        IF ~IsAuthenticated(d.user)
        THEN Refused("GET /api/students/:id", s, d, Unauthorized)
        ELSE IF ~IdParamValid(id)
        THEN Refused("GET /api/students/:id", s, d,
                     Response(400, [message |-> "Invalid student ID format"]))
        ELSE \E o \in GetStudentRuns(d.cache, id) :
                 Served("GET /api/students/:id", s, o,
                        IF o.error # ""
                        THEN Response(500, [message |-> "Failed to fetch student"])
                        ELSE IF o.result = Undefined
                        THEN Response(404, [message |-> "Student not found"])
                        ELSE Response(200, o.result))

\* POST /api/students
RoutePostStudent(s, body) ==
    \E d \in Deserialized(cache, s) :
        IF ~IsAdmin(d.user)
        THEN RefusedBody("POST /api/students", s, body, d, Forbidden)
        ELSE IF ~InsertStudentValid(body)
        THEN RefusedBody("POST /api/students", s, body, d,
                         Response(400, [message |-> "Invalid student data"]))
        ELSE \E o \in CreateStudentRuns(d.cache, body) :
                 ServedBody("POST /api/students", s, body, o,
                            IF o.error # ""
                            THEN Response(500, [message |-> "Failed to create student"])
                            ELSE Response(201, o.result))

\* PATCH /api/students/:id
RoutePatchStudent(s, id, body) ==
    \E d \in Deserialized(cache, s) :
        IF ~IsAdmin(d.user) THEN Refused("PATCH /api/students/:id", s, d, Forbidden)
        ELSE IF ~IdParamValid(id) \/ ~PartialStudentValid(body)
        THEN Refused("PATCH /api/students/:id", s, d,
                     Response(400, [message |-> "Invalid student data"]))
        ELSE \E o \in UpdateStudentRuns(d.cache, id, body) :
                 Served("PATCH /api/students/:id", s, o,
                        IF o.error # ""
                        THEN Response(500, [message |-> "Failed to update student"])
                        ELSE IF o.result = Undefined
                        THEN Response(404, [message |-> "Student not found"])
                        ELSE Response(200, o.result))

\* DELETE /api/students/:id
RouteDeleteStudent(s, id) ==
    \E d \in Deserialized(cache, s) :
        IF ~IsAdmin(d.user) THEN Refused("DELETE /api/students/:id", s, d, Forbidden)
        ELSE IF ~IdParamValid(id)
        THEN Refused("DELETE /api/students/:id", s, d,
                     Response(400, [message |-> "Invalid student ID format"]))
        ELSE \E o \in DeleteStudentRuns(d.cache, id) :
                 Served("DELETE /api/students/:id", s, o,
                        IF o.error # ""
                        THEN Response(500, [message |-> "Failed to delete student"])
                        ELSE IF o.result = FALSE
                        THEN Response(404, [message |-> "Student not found"])
                        ELSE Response(204, <<>>))

\* POST /api/register, sent without a cookie
RouteRegister(body) ==
    \E found \in GetUserByUsernameRuns(cache, body.username) :
        IF found.result # Undefined
        THEN Refused("POST /api/register", 0, found,
                     Response(400, [message |-> "Username already exists"]))
        ELSE \E o \in CreateUserRuns(found.cache,
                                     Spread(body, [password |->
                                                     HashPassword(body.password)])) :
                 /\ Commit(o)
                 /\ sessions' = IF o.error = "" THEN LoggedIn(sessions, o.result)
                                ELSE sessions
                 /\ reply' = [op |-> "POST /api/register", session |-> 0,
                              reached |-> TRUE,
                              response |->
                                  IF o.error # ""
                                  THEN Response(500, [message |->
                                                        "Error during registration"])
                                  ELSE Response(201, Without(o.result, "password"))]
                 /\ RequestDone

\* POST /api/login, sent without a cookie
RouteLogin(body) ==
    \E found \in GetUserByUsernameRuns(cache, body.username) :
        LET verified == Verify(found.result, body.password)
        IN  /\ Commit(found)
            /\ sessions' = IF verified.user # False
                           THEN LoggedIn(sessions, verified.user) ELSE sessions
            /\ reply' = [op |-> "POST /api/login", session |-> 0,
                         reached |-> TRUE, response |-> LoginResponse(verified)]
            /\ RequestDone

NotAuthenticated == Response(401, [message |-> "Not authenticated"])

\* GET /api/user: the handler answers from req.user and calls no storage
\* operation of its own
RouteGetUser(s) ==
    \E d \in Deserialized(cache, s) :
        IF ~IsAuthenticated(d.user)
        THEN Refused("GET /api/user", s, d, NotAuthenticated)
        ELSE Refused("GET /api/user", s, d,
                     Response(200, Without(d.user, "password")))

\* the requests: two registrations, a login, and the routes called with no
\* cookie or with the cookie of the session opened last
RouteRegisterBodies ==
    { [username |-> "ann", password |-> "secret", role |-> "admin"],
      [username |-> "bob", password |-> "secret", role |-> "student"] }

RouteLoginBodies == { [username |-> "bob", password |-> "secret"] }

\* the bodies of POST /api/students: a student with a code, and what the
\* student form sends when its code field is left blank (no studentId key)
RouteStudentBodies ==
    { [studentId |-> <<"a", "1">>, firstName |-> <<"A", "l">>,
       lastName |-> <<"B", "o">>, email |-> <<"a", "@", "b">>, grade |-> 1],
      [firstName |-> <<"A", "l">>, lastName |-> <<"S", "o">>,
       email |-> <<"s", "@", "b">>, phone |-> <<>>, grade |-> 2,
       classSection |-> <<>>, address |-> <<>>, notes |-> <<>>,
       status |-> "active"] }

RouteStudentUpdates == { [status |-> "inactive"] }

Cookies == {0, Len(sessions)}

NextRoutes ==
    \/ \E body \in RouteRegisterBodies : RouteRegister(body)
    \/ \E body \in RouteLoginBodies : RouteLogin(body)
    \/ \E s \in Cookies : RouteGetUser(s)
    \/ \E s \in Cookies : RouteGetStats(s)
    \/ \E s \in Cookies : RouteGetStudents(s, <<>>)
    \/ \E s \in Cookies : RouteGetStudent(s, FirstNumericId)
    \/ \E s \in Cookies, body \in RouteStudentBodies : RoutePostStudent(s, body)
    \/ \E s \in Cookies, body \in RouteStudentUpdates :
           RoutePatchStudent(s, FirstNumericId, body)
    \/ \E s \in Cookies : RouteDeleteStudent(s, FirstNumericId)
    \/ Tick

\* the authenticated routes over MongoStorage
SpecRoutes == InitMongo /\ [][NextRoutes]_vars

-----------------------------------------------------------------------------
(* Properties of MemStorage *)

\* the elements of a sequence
Range(seq) == {seq[i] : i \in 1..Len(seq)}

\* two characters that are the same letter in either case
SameLetter(a, b) == a = b \/ ToLowerChar(a) = b \/ a = ToLowerChar(b)

\* q occurs in text, case ignored
ContainsIgnoreCase(text, q) ==
    \E i \in 0..(Len(text) - Len(q)) :
        \A k \in 1..Len(q) : SameLetter(text[i + k], q[k])

\* q occurs in one of the four searched fields of s, case ignored
FoundIn(s, q) ==
    \E field \in {"firstName", "lastName", "email", "studentId"} :
        ContainsIgnoreCase(s[field], q)

PassesGrade(s, filters) ==
    ~Has(filters, "grade") \/ filters.grade = 0 \/ s.grade = filters.grade

PassesSearch(s, filters) ==
    ~Has(filters, "search") \/ filters.search = <<>> \/ FoundIn(s, filters.search)

Unpaginated(filters) == ~Has(filters, "page") /\ ~Has(filters, "limit")

\* the last operation was getStudents with a status filter x, and its
\* result holds only records of status x and, unpaginated, all of them that
\* pass the other filters
StatusFilterExact ==
    LET x == reply.filters.status
    IN  /\ \A s \in Range(reply.result) : s.status = x
        /\ Unpaginated(reply.filters) =>
               \A s \in Range(students) :
                   (s.status = x /\ PassesGrade(s, reply.filters)
                                 /\ PassesSearch(s, reply.filters))
                       => s \in Range(reply.result)

\* C3: no two stored students have the same student code (a createStudent or
\* an updateStudent with a code in use stores no second record with it)
C3_StudentCodeUnique ==
    \A i, j \in 1..Len(students) :
        i # j => students[i].studentId # students[j].studentId

\* C9 as stated: for every filter status = x with x other than "all",
\* getStudents returns only records of status x and, without pagination,
\* every stored record of status x that passes the other filters
C9_StatusFilterAnyValue ==
    (reply.op = "getStudents" /\ Has(reply.filters, "status")
        /\ reply.filters.status # "all")
        => StatusFilterExact

\* C9 amended: the same for every non-empty x other than "all" (the empty
\* string is no status filter: getStudents treats it like an absent status)
C9_StatusFilterNonEmpty ==
    (reply.op = "getStudents" /\ Has(reply.filters, "status")
        /\ reply.filters.status # "all" /\ reply.filters.status # "")
        => StatusFilterExact

\* C9 witness: a status query, with a second filter, that returned some of
\* the stored students and left others out
C9_Witness ==
    /\ reply.op = "getStudents"
    /\ DOMAIN reply.filters = {"status", "grade"}
    /\ reply.filters.status = "active"
    /\ Len(reply.result) >= 1
    /\ \E s \in Range(students) : s.status # "active"
    /\ \E s \in Range(students) : s.status = "active" /\ s.grade # 1

\* C10: with a non-empty search text q as the only filter, getStudents
\* returns a stored record if and only if q occurs, case ignored, in its
\* first name, last name, e-mail or student code
C10_SearchIffSubstring ==
    (reply.op = "getStudents" /\ DOMAIN reply.filters = {"search"}
        /\ reply.filters.search # <<>>)
        => \A s \in Range(students) :
               s \in Range(reply.result) <=> FoundIn(s, reply.filters.search)

\* C10 witness: a search in another case than the stored text found some
\* students, by their student code, and not the others
C10_Witness ==
    /\ reply.op = "getStudents"
    /\ reply.filters = [search |-> <<"s", "t", "1">>]
    /\ Len(reply.result) >= 1
    /\ Len(reply.result) < Len(students)


\* the position of the record with identifier id in a sequence of records
PositionOf(seq, id) == CHOOSE i \in 1..Len(seq) : seq[i].id = id

\* the order by first name and then by last name, case ignored: -1, 0 or 1
FirstThenLast(a, b) ==
    LET first == LocaleCompare(ToLowerCase(a.firstName), ToLowerCase(b.firstName))
    IN  IF first # 0 THEN first
        ELSE LocaleCompare(ToLowerCase(a.lastName), ToLowerCase(b.lastName))

NameAsc == <<"n", "a", "m", "e", "_", "a", "s", "c">>

SortedByNameAsc == reply.op = "getStudents" /\ reply.filters = [sort |-> NameAsc]

\* sorting the result of a name_asc query again gives the same order
NameAscIdempotent ==
    SortedByNameAsc => SortStep(reply.result, reply.filters) = reply.result

\* two students of a name_asc result with the same names, case ignored, are
\* in the order in which they are stored
NameAscStable ==
    SortedByNameAsc =>
        \A i, j \in 1..Len(reply.result) :
            (i < j /\ FirstThenLast(reply.result[i], reply.result[j]) = 0)
                => PositionOf(students, reply.result[i].id)
                       < PositionOf(students, reply.result[j].id)

\* a name_asc result is in the order of first name and then last name
NameAscFirstThenLast ==
    SortedByNameAsc =>
        \A i, j \in 1..Len(reply.result) :
            i < j => FirstThenLast(reply.result[i], reply.result[j]) <= 0

\* a name_asc result is in the order of the full names "first last"
NameAscFullName ==
    SortedByNameAsc =>
        \A i, j \in 1..Len(reply.result) :
            i < j => CompareByName(reply.result[i], reply.result[j]) <= 0

\* C11: getStudents with sort = "name_asc" returns the stored students
\* ordered by first name and then last name, case ignored; sorting the result
\* again leaves it as it is; students with the same names keep their stored
\* order
C11_NameAscOrder ==
    NameAscFirstThenLast /\ NameAscIdempotent /\ NameAscStable

\* the filtered and sorted sequence of a query: what getStudents returns for
\* the same filters without page and limit
FilteredSorted(filters) ==
    MemGetStudents(students,
                   [k \in DOMAIN filters \ {"page", "limit"} |-> filters[k]])

\* the records at positions from (0-based) up to but excluding to of seq
Positions(seq, from, to) ==
    LET last == IF to > Len(seq) THEN Len(seq) ELSE to
    IN  IF from < 0 \/ from >= last THEN <<>>
        ELSE [i \in 1..(last - from) |-> seq[from + i]]

\* the last operation was getStudents and its result is page page of the
\* filtered and sorted sequence cut into pages of limit records
ExactPage ==
    LET page  == reply.filters.page
        limit == reply.filters.limit
    IN  reply.result
            = Positions(FilteredSorted(reply.filters), (page - 1) * limit,
                        page * limit)

PageAndLimitGiven ==
    reply.op = "getStudents" /\ {"page", "limit"} \subseteq DOMAIN reply.filters

PageBeyondEnd ==
    /\ PageAndLimitGiven
    /\ reply.filters.page = 3 /\ reply.filters.limit = 2
    /\ Len(students) = 3
    /\ reply.result = <<>>

\* the record holds every field of the createStudent input with the
\* input's value, the identifier id, and status "active" when the input has
\* no status
EqualsInput(record, student, id) ==
    /\ record # Undefined
    /\ \A field \in DOMAIN student : record[field] = student[field]
    /\ record.id = id
    /\ ~Has(student, "status") => record.status = "active"

\* createStudent was called with a student code
CreatedWithCode ==
    /\ reply.op = "createStudent"
    /\ Has(reply.student, "studentId") /\ reply.student.studentId # <<>>

\* a getStudentById of the code that the createStudent before it supplied
CreateThenRead ==
    /\ CreatedWithCode
    /\ reply'.op = "getStudentById"
    /\ reply'.studentId = reply.student.studentId

\* C13: a getStudentById(c) that follows a createStudent with the supplied
\* code c returns a record whose every supplied field equals the input, with
\* the assigned identifier and with status "active" when none was supplied
C13_CreateThenRead ==
    [][CreateThenRead => EqualsInput(reply'.result, reply.student, reply.result.id)]_vars

\* the same for a code that no other stored student has, a status of the
\* enumeration or none, and optional texts that are not empty
CreateThenReadFresh ==
    [][(/\ CreateThenRead
        /\ \A i \in 1..Len(students) :
               students[i].studentId = reply.student.studentId
                   => students[i].id = reply.result.id
        /\ Has(reply.student, "status") => reply.student.status \in StatusEnum
        /\ \A field \in {"phone", "classSection", "address", "notes"} :
               Has(reply.student, field) => reply.student[field] # <<>>)
           => EqualsInput(reply'.result, reply.student, reply.result.id)]_vars

\* the step is an updateStudent of a stored student
UpdatesStored == reply'.op = "updateStudent" /\ reply'.result # Undefined

\* the step leaves every field outside studentData of the student id as it
\* was, adds and removes no field, and leaves every other student, the
\* number of students and their order as they were
OnlySupplied(id, studentData) ==
    LET old == MemGetStudent(students, id)
        new == MemGetStudent(students', id)
    IN  /\ new # Undefined
        /\ DOMAIN new = DOMAIN old
        /\ \A field \in DOMAIN old \ DOMAIN studentData : new[field] = old[field]
        /\ Len(students') = Len(students)
        /\ \A i \in 1..Len(students) :
               students[i].id # id => students'[i] = students[i]

\* C14: updateStudent on an existing id changes only the supplied fields of
\* that student (an update of grade alone leaves its id, code, names, e-mail,
\* phone, class section, address, notes, status and userId unchanged) and
\* leaves every other stored student unchanged
C14_UpdateOnlySupplied ==
    [][UpdatesStored => OnlySupplied(reply'.id, reply'.studentData)]_vars

\* C14 witness: an update of grade alone changed the grade of one of two
\* stored students, whose status is not the default one
C14_Witness ==
    /\ reply.op = "updateStudent"
    /\ reply.studentData = [grade |-> 3]
    /\ reply.result # Undefined
    /\ reply.result.grade = 3
    /\ reply.result.status = "inactive"
    /\ Len(students) = 2
    /\ \E i \in 1..Len(students) : students[i].grade # 3

\* a deleteStudent step of MemStorage returns whether a student had the id;
\* it removes that student and no other, leaves the order of the others,
\* leaves no student with the id (a second deleteStudent of it returns
\* false), and leaves the users as they were
MemDeleteExactlyOne ==
    [][reply'.op = "deleteStudent" =>
          LET id      == reply'.id
              present == \E i \in 1..Len(students) : students[i].id = id
              others(s) == s.id # id
          IN  /\ reply'.result = present
              /\ ~present => students' = students
              /\ students' = SelectSeq(students, others)
              /\ present => Len(students') = Len(students) - 1
              /\ MemGetStudent(students', id) = Undefined
              /\ users' = users]_vars

\* a deleteStudent removed one of the two demo students while the demo
\* accounts are stored
MemDeleteWitness ==
    /\ reply.op = "deleteStudent" /\ reply.result = TRUE
    /\ Len(students) = 1 /\ users = SeedUsers

\* every stored student has a status of the enumeration
StatusValid == \A i \in 1..Len(students) : students[i].status \in StatusEnum

\* obj has a status of the enumeration
HasValidStatus(obj) == Has(obj, "status") /\ obj.status \in StatusEnum

\* a createStudent without a status of the enumeration stores "active"
CreateSubstitutes ==
    (reply'.op = "createStudent" /\ ~HasValidStatus(reply'.student))
        => MemGetStudent(students', reply'.result.id).status = "active"

\* an updateStudent without a status of the enumeration keeps the status
UpdateKeeps ==
    (UpdatesStored /\ ~HasValidStatus(reply'.studentData))
        => MemGetStudent(students', reply'.id).status
               = MemGetStudent(students, reply'.id).status

\* C16: in MemStorage every stored student always has one of the statuses
\* active, inactive, pending, whatever status strings createStudent and
\* updateStudent are given: createStudent stores "active" for a missing or
\* invalid status and updateStudent keeps the previous status
C16_StatusAlwaysValid ==
    []StatusValid /\ [][CreateSubstitutes /\ UpdateKeeps]_vars

\* C16 witness: a student created with the status "bogus" is stored, and an
\* update with the status "bogus" left another student inactive
C16_Witness ==
    /\ reply.op = "updateStudent"
    /\ Has(reply.studentData, "status") /\ reply.studentData.status = "bogus"
    /\ reply.result # Undefined
    /\ reply.result.status = "inactive"
    /\ \E i \in 1..Len(students) :
           students[i].notes = <<"o">> /\ students[i].status = "active"

\* the stored students are in the order of their creation (Map keeps the
\* order of insertion) and their identifiers increase strictly in that
\* order; every identifier assigned so far is below the counter
IdsIncreasing ==
    /\ \A i, j \in 1..Len(students) : i < j => students[i].id < students[j].id
    /\ \A i \in 1..Len(students) : students[i].id < currentId

\* a createStudent step assigns an identifier that is not below the counter,
\* hence above every identifier assigned before, stores the record under it,
\* and leaves the counter above it
CreateAssignsNew ==
    reply'.op = "createStudent" =>
        /\ reply'.result.id >= currentId
        /\ currentId' > reply'.result.id
        /\ MemGetStudent(students, reply'.result.id) = Undefined
        /\ MemGetStudent(students', reply'.result.id) = reply'.result

\* an updateStudent step stores the record under the key it was read from,
\* with the identifier it had
UpdateKeepsId ==
    UpdatesStored =>
        /\ reply'.result.id = reply'.id
        /\ MemGetStudent(students', reply'.id) = reply'.result
        /\ \A i \in 1..Len(students) : students'[i].id = students[i].id

\* C17: in MemStorage the identifiers createStudent assigns increase
\* strictly in creation order and none is assigned twice, also after
\* deletions; every stored record's id is the key it is stored under, and no
\* updateStudent changes it
C17_IdsNeverReused ==
    /\ []IdsIncreasing
    /\ [][currentId' >= currentId /\ CreateAssignsNew /\ UpdateKeepsId]_vars

\* C17 witness: a createStudent after the deletion of the first student got
\* the identifier 2, and is the only stored student
C17_Witness ==
    /\ reply.op = "createStudent"
    /\ reply.result.id = 2
    /\ Len(students) = 1
\* the sort values that getStudents documents
KnownSorts ==
    { <<"n", "a", "m", "e", "_", "a", "s", "c">>,
      <<"n", "a", "m", "e", "_", "d", "e", "s", "c">>,
      <<"i", "d", "_", "a", "s", "c">>,
      <<"i", "d", "_", "d", "e", "s", "c">> }

\* getStudents has returned for a sort value that is none of the four
UnknownSortAsked ==
    /\ reply.op = "getStudents"
    /\ Has(reply.filters, "sort")
    /\ reply.filters.sort \notin KnownSorts

\* C24: for a sort value that is none of name_asc, name_desc, id_asc and
\* id_desc, getStudents returns the records in the order it returns them
\* in without a sort value, ascending by name
C24_UnknownSortFallsBack ==
    UnknownSortAsked =>
        reply.result = MemGetStudents(students, Without(reply.filters, "sort"))

\* what the code does instead: a sort value whose field is neither name nor
\* id leaves the records in the order of the Map, that of their creation
UnknownFieldKeepsMapOrder ==
    (UnknownSortAsked /\ Split(reply.filters.sort, "_")[1] \notin
                             {<<"n", "a", "m", "e">>, <<"i", "d">>}) =>
        reply.result = students

\* run is the records of all at some consecutive positions
ContiguousRun(run, all) ==
    \E start \in 0..Len(all) :
        /\ start + Len(run) <= Len(all)
        /\ \A i \in 1..Len(run) : run[i] = all[start + i]

\* getStudents has returned for filters that give a page and a limit
PagedRead ==
    /\ reply.op = "getStudents"
    /\ Has(reply.filters, "page")
    /\ Has(reply.filters, "limit")

\* the filtered and sorted sequence that the page is cut from
Unpaged == MemGetStudents(students, Without(Without(reply.filters, "page"), "limit"))

\* C28: for every integer page and limit, zero and negative ones included,
\* getStudents returns the whole filtered and sorted sequence or a contiguous
\* run of it of at most limit records, and never more than limit records
\* when neither is zero
C28_PageBounded ==
    PagedRead =>
        /\ \/ reply.result = Unpaged
           \/ /\ ContiguousRun(reply.result, Unpaged)
              /\ Len(reply.result) <= reply.filters.limit
        /\ (reply.filters.page # 0 /\ reply.filters.limit # 0)
               => Len(reply.result) <= reply.filters.limit

\* the part of C28 that holds: the result is always a contiguous run, and it
\* holds at most limit records when the limit is at least 1, for every page
PageBoundedForPositiveLimit ==
    PagedRead =>
        /\ ContiguousRun(reply.result, Unpaged)
        /\ (reply.filters.page # 0 /\ reply.filters.limit >= 1)
               => Len(reply.result) <= reply.filters.limit

\* a negative limit has returned all the records but the last
NegativeLimitRead ==
    /\ PagedRead
    /\ reply.filters.limit < 0
    /\ Len(students) = MaxStudents
    /\ Len(reply.result) = Len(students) - 1

-----------------------------------------------------------------------------
(* Properties of MongoStorage, its operations called one after another *)

\* what the backend holds for a getStudents now
FreshStudents(filters) ==
    {ConvertAll(docs) : docs \in FindResults(studentDocs, filters)}

\* what the backend holds for the read that was answered
FreshResults(r) ==
    CASE r.op = "getStudents" -> FreshStudents(r.filters)
      [] r.op = "getStudent" ->
             {FindStudentById(all, r.id) : all \in FreshStudents(<<>>)}
      [] r.op = "getStudentById" ->
             LET doc == FindOneByCode(studentDocs, r.studentId)
             IN  {IF doc = Undefined THEN Undefined ELSE ConvertToStudent(doc)}
      [] r.op = "getStudentStats" ->
             {Stats(Len(studentDocs), CountStatus(studentDocs, "active"),
                    CountStatus(studentDocs, "pending"),
                    CountStatus(studentDocs, "inactive"))}
      [] r.op = "getUser" ->
             LET doc == FindUserDocById(userDocs, r.id)
             IN  {IF doc = Undefined THEN Undefined ELSE ConvertToUser(doc)}
      [] r.op = "getUserByUsername" ->
             LET doc == FindOneByName(userDocs, r.username)
             IN  {IF doc = Undefined THEN Undefined ELSE ConvertToUser(doc)}

ReadOps ==
    {"getStudents", "getStudent", "getStudentById", "getStudentStats",
     "getUser", "getUserByUsername"}

\* the call answered was a write that changed the backend
SuccessfulWrite(r) ==
    \/ r.op = "createStudent" /\ r.error = ""
    \/ r.op = "updateStudent" /\ r.error = "" /\ r.result # Undefined
    \/ r.op = "deleteStudent" /\ r.error = "" /\ r.result = TRUE
    \/ r.op = "createUser" /\ r.error = ""
    \/ r.op = "updateUser" /\ r.error = "" /\ r.result # Undefined

\* C1: with the operations called one after another, a read that returns
\* gives what the backend holds at that moment, whatever reads and writes
\* came before it, and a write that succeeded leaves the cache empty
C1_SequentialReadsFresh ==
    /\ (reply.op \in ReadOps /\ reply.error = "")
           => reply.result \in FreshResults(reply)
    /\ SuccessfulWrite(reply) => DOMAIN cache = {}

\* a getStudent answered with the status an updateStudent wrote, the update
\* having cached the student as it was when it looked the student up
C1_Witness ==
    /\ reply.op = "getStudent"
    /\ reply.error = ""
    /\ reply.result # Undefined
    /\ reply.result.status = "inactive"
    /\ StudentKey(reply.id) \in DOMAIN cache

\* C5: no two stored student documents have the same numeric id
C5_NumericIdUnique ==
    \A i, j \in 1..Len(studentDocs) :
        i # j => NumericId(studentDocs[i]._id) # NumericId(studentDocs[j]._id)


\* the stored student documents with the numeric identifier id
DocsWithId(docs, id) == {i \in 1..Len(docs) : NumericId(docs[i]._id) = id}

\* the step is a call of MongoStorage.deleteStudent, from call to return
DeleteReturned == calls' = calls + 1 /\ reply'.op = "deleteStudent"

\* C15: deleteStudent(id) returns false and changes nothing when no student
\* has the id; when one has it, it returns true and removes exactly that
\* student, so that a second deleteStudent(id) returns false; it never
\* removes or changes a user
C15_DeleteExactlyOne ==
    [][(DeleteReturned /\ reply'.error = "") =>
          LET id      == reply'.id
              present == DocsWithId(studentDocs, id) # {}
          IN  /\ reply'.result = present
              /\ ~present => studentDocs' = studentDocs
              /\ present => Len(studentDocs') = Len(studentDocs) - 1
              /\ DocsWithId(studentDocs', id) = {}
              /\ userDocs' = userDocs]_vars

\* the same while no two stored students have the same numeric identifier
MongoDeleteExactlyOneUnique ==
    [][(DeleteReturned /\ reply'.error = "" /\ C5_NumericIdUnique) =>
          LET id      == reply'.id
              present == DocsWithId(studentDocs, id) # {}
          IN  /\ reply'.result = present
              /\ ~present => studentDocs' = studentDocs
              /\ present => Len(studentDocs') = Len(studentDocs) - 1
              /\ DocsWithId(studentDocs', id) = {}
              /\ userDocs' = userDocs]_vars

\* the cache key of the read that was answered
KeyOfRead(r) ==
    CASE r.op = "getStudents" -> StudentsKey(r.filters)
      [] r.op = "getStudent" -> StudentKey(r.id)
      [] r.op = "getStudentById" -> StudentByIdKey(r.studentId)
      [] r.op = "getStudentStats" -> StatsKey

StudentReadOps == {"getStudents", "getStudent", "getStudentById", "getStudentStats"}

\* the step is a read of the student collection, from call to return
ReadReturned ==
    calls' = calls + 1 /\ reply'.op \in StudentReadOps /\ reply'.error = ""

\* the entry under key is held and its age is below the TTL
Young(key) == key \in DOMAIN cache /\ now - cache[key].timestamp < cacheTTL

\* the entry under key is held and its age is at or above the TTL
Expired(key) == key \in DOMAIN cache /\ now - cache[key].timestamp >= cacheTTL

\* a read answers from its entry only while the entry is young, and then
\* leaves the entry as it is
ServedWhileYoung ==
    (ReadReturned /\ Young(KeyOfRead(reply'))) =>
        /\ reply'.result = cache[KeyOfRead(reply')].data
        /\ cache' = cache

\* a read whose entry is expired answers with what the backend holds and
\* replaces the entry by that answer with the time of the read
ExpiredReplaced ==
    (ReadReturned /\ Expired(KeyOfRead(reply'))) =>
        /\ reply'.result \in FreshResults(reply')
        /\ cache'[KeyOfRead(reply')] = [data |-> reply'.result, timestamp |-> now]

\* the read queried the backend: getStudent gets the list from getStudents,
\* which queries when its own entry does not answer and then stores what it
\* fetched under its own key; the other reads run their query themselves
\* when their entry does not answer
QueriedBackend ==
    reply'.op = "getStudent" =>
        /\ ~Young(StudentsKey(<<>>))
        /\ cache'[StudentsKey(<<>>)].timestamp = now

StoredStudents == IF backend = "mem" THEN students ELSE studentDocs

\* the number of stored students with a status
NumberWithStatus(status) ==
    Cardinality({i \in 1..Len(StoredStudents) : StoredStudents[i].status = status})

\* the last call was a getStudentStats that returned
StatsReturned ==
    reply.op = "getStudentStats" /\ (backend = "mongo" => reply.error = "")

\* C19: after any sequence of creates, updates and deletes getStudentStats
\* returns the number of stored students as totalStudents, the number with
\* status active as activeStudents, with status pending as pendingApprovals
\* and with status inactive as issuesReported
C19_StatsCountByStatus ==
    StatsReturned =>
        /\ reply.result.totalStudents = Len(StoredStudents)
        /\ reply.result.activeStudents = NumberWithStatus("active")
        /\ reply.result.pendingApprovals = NumberWithStatus("pending")
        /\ reply.result.issuesReported = NumberWithStatus("inactive")
        /\ DOMAIN reply.result = {"totalStudents", "activeStudents",
                                  "pendingApprovals", "issuesReported"}

\* C19 witness: statistics of MemStorage over two students, one pending and
\* one made inactive by an update
C19_Witness ==
    /\ backend = "mem"
    /\ StatsReturned
    /\ reply.result.totalStudents = 2
    /\ reply.result.pendingApprovals = 1
    /\ reply.result.issuesReported = 1

\* statistics of MongoStorage over two students, one pending and one active
MongoStatsWitness ==
    /\ backend = "mongo"
    /\ StatsReturned
    /\ reply.result.totalStudents = 2
    /\ reply.result.pendingApprovals = 1
    /\ reply.result.activeStudents = 1
\* a step in which createStudent returns or throws for a student given
\* without a student code
CreateWithoutCode ==
    /\ calls' = calls + 1 \/ currentId' = currentId + 1
    /\ reply'.op = "createStudent"
    /\ ~Has(reply'.student, "studentId")

\* what createStudent is to return for a student given without a code
GeneratedAndActive ==
    /\ backend = "mongo" => reply'.error = ""
    /\ reply'.result # Undefined
    /\ reply'.result.studentId # <<>>
    /\ reply'.result.status = "active"

\* C21: on MemStorage and on MongoStorage alike, createStudent of a student
\* without a student code succeeds and returns a student with a generated,
\* non-empty code and the status 'active'
C21_CreateContract == [][CreateWithoutCode => GeneratedAndActive]_vars

\* the part of C21 that MemStorage satisfies
MemCreateGenerates ==
    [][backend = "mem" /\ CreateWithoutCode => GeneratedAndActive]_vars

\* MongoStorage has refused a student for want of a student code
MongoCreateRefused ==
    /\ backend = "mongo"
    /\ reply.op = "createStudent"
    /\ ~Has(reply.student, "studentId")
    /\ reply.error = "Failed to create student"

\* MemStorage has generated the code of a student given without one
MemCreateGenerated ==
    /\ backend = "mem"
    /\ reply.op = "createStudent"
    /\ ~Has(reply.student, "studentId")
    /\ reply.result.studentId = <<"S", "T", "1", "0", "0", "0", "1">>

\* C25: in MongoStorage the status of every stored student is one of
\* active, inactive and pending, whatever updateStudent was given
C25_MongoStatusValid ==
    \A i \in 1..Len(studentDocs) : studentDocs[i].status \in StatusEnum

\* what the code does instead: updateStudent stores the status it is given
MongoUpdateStoresGiven ==
    [][(calls' = calls + 1 /\ reply'.op = "updateStudent"
            /\ reply'.error = "" /\ reply'.result # Undefined
            /\ Has(reply'.studentData, "status"))
           => \E i \in 1..Len(studentDocs') :
                  /\ studentDocs'[i].status = reply'.studentData.status
                  /\ reply'.result.status = reply'.studentData.status]_vars

-----------------------------------------------------------------------------
(* Properties of MongoStorage, its operations interleaved *)

\* the read whose result a cache entry holds
ReadOfKey(key) ==
    CASE key[1] = "students" -> [op |-> "getStudents", filters |-> key[2]]
      [] key[1] = "student" -> [op |-> "getStudent", id |-> key[2]]
      [] key[1] = "studentById" -> [op |-> "getStudentById", studentId |-> key[2]]
      [] key[1] = "studentStats" -> [op |-> "getStudentStats"]
      [] key[1] = "user" -> [op |-> "getUser", id |-> key[2]]
      [] key[1] = "userByUsername" -> [op |-> "getUserByUsername", username |-> key[2]]

\* C2: once the calls in flight have all completed, every cache entry younger
\* than the TTL holds what the backend holds
C2_CacheNeverMasksWrite ==
    InFlight = {} =>
        \A key \in DOMAIN cache :
            CacheHit(cache, key) => cache[key].data \in FreshResults(ReadOfKey(key))

\* the total of a StudentStats object is the sum of its three status counts
StatsConsistent(stats) ==
    stats.totalStudents =
        stats.activeStudents + stats.pendingApprovals + stats.issuesReported

\* C29: the object getStudentStats returns, and the one it caches, has
\* totalStudents = activeStudents + pendingApprovals + issuesReported, also
\* when writes of students run between its four counts
C29_StatsSnapshot ==
    /\ (reply.op = "getStudentStats" /\ reply.error = "")
           => StatsConsistent(reply.result)
    /\ StatsKey \in DOMAIN cache => StatsConsistent(cache[StatsKey].data)

\* a stats object whose total is not the sum of its counts is cached while
\* no call is in flight
InconsistentStatsCached ==
    /\ InFlight = {}
    /\ StatsKey \in DOMAIN cache
    /\ ~StatsConsistent(cache[StatsKey].data)

-----------------------------------------------------------------------------
(* Properties of authentication over MemStorage *)

\* the requests answered
AnsweredCalls(op) ==
    {k \in 1..Len(procs) : procs[k].op = op /\ procs[k].pc = "done"}

\* C4: no two stored users have the same username
C4_UsernameUnique ==
    \A i, j \in 1..Len(users) : i # j => users[i].username # users[j].username

\* the users that the lookup of login k saw under the username supplied
Known(k) == {u \in Range(procs[k].loc.seen) : u.username = procs[k].arg.username}

UnknownUsername(k) == Known(k) = {}

WrongPassword(k) ==
    /\ Known(k) # {}
    /\ \A u \in Known(k) : u.password # procs[k].arg.password

InvalidCredentials == Response(401, [message |-> "Invalid credentials"])

\* C6: a login with an unknown username and a login with a known username
\* and a wrong password are answered alike, 401 'Invalid credentials'
C6_UniformRejection ==
    \A k \in AnsweredCalls("login") :
        (UnknownUsername(k) \/ WrongPassword(k))
            => procs[k].loc.response = InvalidCredentials

\* both rejections have been given
C6_Witness ==
    /\ \E k \in AnsweredCalls("login") : UnknownUsername(k)
    /\ \E k \in AnsweredCalls("login") : WrongPassword(k)

\* C7: a login succeeds if and only if its lookup saw a user with the
\* username and the password supplied, and then it answers with that user
C7_AuthenticateIff ==
    \A k \in AnsweredCalls("login") :
        LET matching == {u \in Known(k) : u.password = procs[k].arg.password}
        IN  /\ procs[k].loc.response.status = 200 <=> matching # {}
            /\ procs[k].loc.response.status = 200
                   => \E u \in matching :
                          procs[k].loc.response.body = Without(u, "password")

\* the step in which the k-th request, a POST /api/login, is answered 200
LoginSucceeds(k) ==
    /\ procs[k].op = "login"
    /\ procs[k].pc = "lookup"
    /\ procs'[k].pc = "done"
    /\ procs'[k].loc.response.status = 200

\* the stored users of a username
UsersNamed(us, username) == {i \in 1..Len(us) : us[i].username = username}

\* C22: after a successful POST /api/login for a user, the stored lastLogin
\* of that user is the time of the login
C22_LastLoginUpdated ==
    [][\A k \in 1..Len(procs) :
           LoginSucceeds(k) =>
               \A i \in UsersNamed(users', procs[k].arg.username) :
                   /\ users'[i].lastLogin # Null
                   /\ users'[i].lastLogin = now]_vars

\* what the code does instead: no request changes the lastLogin of a stored
\* user, which stays null from the user's creation on
LastLoginNeverSet ==
    \A i \in 1..Len(users) : users[i].lastLogin = Null

\* a login has succeeded
LoginSucceeded ==
    \E k \in 1..Len(procs) :
        /\ procs[k].op = "login"
        /\ procs[k].pc = "done"
        /\ procs[k].loc.response.status = 200

\* the storage module has just been evaluated
JustStarted == reply.op = "start"

\* MemStorage holding the demo accounts 'admin' and 'student' and the two
\* sample students
SeededMemStorage ==
    /\ backend = "mem"
    /\ users = SeedUsers
    /\ students = SeedStudents

\* C26: when the connection to MongoDB fails at the start of the process
\* the exported storage is the seeded MemStorage, and it is a MongoStorage
\* only when the connection succeeded
C26_FallbackOnFailure ==
    JustStarted =>
        /\ ~procs[1].arg.connects => SeededMemStorage
        /\ backend = "mongo" => procs[1].arg.connects

\* what the code does instead: the storage is the seeded MemStorage exactly
\* when the constructor threw, whatever became of the connection
FallbackOnThrow ==
    JustStarted =>
        /\ procs[1].loc.thrown <=> backend = "mem"
        /\ backend = "mem" => SeededMemStorage

\* the MongoStorage was exported although its connection failed
MongoWithoutConnection ==
    JustStarted /\ backend = "mongo" /\ ~procs[1].arg.connects

\* a registration that is to fail: a password shorter than 6 characters, a
\* role that is neither admin nor student, or a confirmation that differs
RegistrationInvalid(body) ==
    \/ Len(body.password) < 6
    \/ Has(body, "role") /\ body.role \notin RoleEnum
    \/ body.password # body.confirmPassword

\* C27: POST /api/register stores no user for a registration whose password
\* is short, whose role is outside the enumeration or whose confirmation
\* differs from the password
C27_RegistrationValidated ==
    \A k \in AnsweredCalls("register") :
        RegistrationInvalid(procs[k].arg) =>
            UsersNamed(users, procs[k].arg.username) = {}

\* what the code does instead: a registration is refused only for its
\* username being stored already; every other one is answered 201 and
\* stored, with the role 'student' when the one given is outside the
\* enumeration
RegistrationStoredUnvalidated ==
    \A k \in AnsweredCalls("register") :
        /\ procs[k].loc.response.status = 400
               <=> Known(k) # {}
        /\ procs[k].loc.response.status # 400 =>
               /\ procs[k].loc.response.status = 201
               /\ \E i \in UsersNamed(users, procs[k].arg.username) :
                      /\ users[i].password = procs[k].arg.password
                      /\ users[i].role \in RoleEnum

\* the schema, where it is applied, rejects the short password and the
\* differing confirmation, and accepts a role outside the enumeration
SchemaRejects ==
    \A body \in RegistrationBodies :
        InsertUserValid(body) <=> body.username \in {"bob", "ed"}

\* the three kinds of invalid registration have been answered
InvalidRegistrationsAnswered ==
    \A name \in {"cy", "di", "ed"} :
        \E k \in AnsweredCalls("register") : procs[k].arg.username = name

\* the part of C29 that MemStorage satisfies: getStudentStats computes its
\* four counts in one step from one array of the Map's values
MemStatsConsistent ==
    reply.op = "getStudentStats" => StatsConsistent(reply.result)

-----------------------------------------------------------------------------
(* Properties of the authenticated routes *)

AdminRoutes ==
    {"GET /api/stats", "POST /api/students", "PATCH /api/students/:id",
     "DELETE /api/students/:id"}

ReadRoutes == {"GET /api/students", "GET /api/students/:id"}

\* the role stored for the user who opened session s
OwnerRole(s) ==
    LET owner == CHOOSE i \in 1..Len(userDocs) :
                     userDocs[i].username = sessions[s].owner
    IN  userDocs[owner].role

\* C8: a request reaches createStudent, updateStudent, deleteStudent or
\* getStudentStats only on a session opened by a user whose role is admin,
\* and reaches the student reads only on a session
C8_RoleBasedAccess ==
    /\ (reply.op \in AdminRoutes /\ reply.reached)
           => reply.session # 0 /\ OwnerRole(reply.session) = "admin"
    /\ (reply.op \in ReadRoutes /\ reply.reached) => reply.session # 0


\* the last request was a POST /api/students without a student code that
\* passed the isAdmin middleware
BlankCodePosted ==
    /\ reply.op = "POST /api/students"
    /\ ~Has(reply.body, "studentId")
    /\ reply.response.status \notin {Unauthorized.status, Forbidden.status}

\* C20: a POST /api/students of an admin with the student code omitted, as
\* the student form sends it when the field is left blank, is answered 201
\* and the student is stored with a generated code
C20_BlankCodeAccepted ==
    BlankCodePosted =>
        /\ reply.response.status = 201
        /\ \E i \in 1..Len(studentDocs) :
               /\ studentDocs[i].lastName = reply.body.lastName
               /\ Has(studentDocs[i], "studentId")
               /\ studentDocs[i].studentId # <<>>
\* the routes that answer with a user record
SessionRoutes == {"POST /api/register", "POST /api/login", "GET /api/user"}

\* the stored users as the storage returns them
StoredUsers == {ConvertToUser(userDocs[i]) : i \in 1..Len(userDocs)}

\* a response body that is a stored user without the password
UserWithoutPassword(body) ==
    \E user \in StoredUsers : body = Without(user, "password")

\* C23: the response of POST /api/register, POST /api/login and
\* GET /api/user has no password field, whatever the outcome, and on success
\* it is the record of a stored user without its password
C23_NoPasswordInResponse ==
    (reply # NoReply /\ reply.op \in SessionRoutes) =>
        /\ ~Has(reply.response.body, "password")
        /\ reply.response.status \in {200, 201}
               => UserWithoutPassword(reply.response.body)

\* GET /api/user has answered with the user of a session
C23_Witness ==
    /\ reply # NoReply
    /\ reply.op = "GET /api/user"
    /\ reply.response.status = 200
    /\ reply.response.body.username = "bob"

\* a registration and a login have answered with a user
RegisteredAndLoggedIn ==
    /\ reply # NoReply
    /\ reply.op = "POST /api/login"
    /\ reply.response.status = 200
    /\ Len(userDocs) > 0

\* GET /api/user has been answered for a request with a session's cookie
SessionRead ==
    /\ reply # NoReply
    /\ reply.op = "GET /api/user"
    /\ reply.session # 0

\* C30: a request on the session of a user who logged in or registered
\* resolves to that user and to no other stored user
C30_SessionBound ==
    SessionRead =>
        /\ reply.response.status = 200
        /\ reply.response.body.username = sessions[reply.session].owner

\* a session resolves to another user than the one who opened it
SessionOfAnother ==
    /\ SessionRead
    /\ reply.response.status = 200
    /\ reply.response.body.username # sessions[reply.session].owner

\* the part of C30 that holds: a session resolves to its own user whenever
\* no other stored user has the numeric id it holds
SessionBoundUniqueId ==
    (SessionRead /\ \A i, j \in 1..Len(userDocs) :
                        NumericId(userDocs[i]._id) = NumericId(userDocs[j]._id)
                            => i = j)
        => /\ reply.response.status = 200
           /\ reply.response.body.username = sessions[reply.session].owner

\* on MemStorage, whose user ids come from a counter, the id a session holds
\* is the id of the user who opened it
MemSessionBound ==
    \A s \in 1..Len(sessions) :
        /\ MemGetUser(users, sessions[s].user) # Undefined
        /\ MemGetUser(users, sessions[s].user).username = sessions[s].owner

=============================================================================
